---- MODULE Spec2Model ----
(***************************************************************************)
(* A model of the inference.sh Python SDK: the headless agent client, the  *)
(* streaming connection manager, the task client's run operation, the      *)
(* kernel (loader, executor, schema generator, aislast) and the File       *)
(* model.  Each subsystem has its own specification over the shared        *)
(* variables; the variables of the other subsystems stay at their idle     *)
(* values.                                                                 *)
(***************************************************************************)
EXTENDS Integers, Sequences, FiniteSets, TLC

VARIABLES
    chat_id,    \* Agent._chat_id
    requests,   \* the remote requests the agent has issued, oldest first
    streams,    \* the stream_messages / stream_chat generator created last
    outcome,    \* what the last Agent operation did: returned or raised
    sm,         \* one StreamManager and the queue bridging it to its consumer
    task,       \* one run(params) call of the task client
    ais,        \* one aislast generator over one source
    call,       \* a call of a pure kernel / model function: name and arguments
    ret         \* the result of that call

agentVars == <<chat_id, requests, streams, outcome>>
vars == <<chat_id, requests, streams, outcome, sm, task, ais, call, ret>>

(***************************************************************************)
(* Values shared by the subsystems.                                        *)
(***************************************************************************)
None == "None"          \* Python's None / an absent JSON key
Idle == [pc |-> "idle"] \* a subsystem a specification does not exercise

\* Python truthiness of an optional string: None and "" are falsy.
Truthy(v) == v # None /\ v # ""

\* Python's `a or b`.
Or(a, b) == IF Truthy(a) THEN a ELSE b

(***************************************************************************)
(* Headless agent client (agent.py).                                       *)
(***************************************************************************)
MaxRequests == 3

ChatIds == {"c1", "c2"}
\* What a server response / a caller may supply where a chat id is expected.
MaybeChatIds == ChatIds \cup {None, ""}

\* A remote request: the operation, the chat it targets, and the chat id the
\* caller passed explicitly (None for operations that take none).
Request(op, target, arg) == [op |-> op, target |-> target, arg |-> arg]
Returned(op, value) == [op |-> op, kind |-> "return", value |-> value]
Raised(op, error) == [op |-> op, kind |-> "raise", value |-> error]

\* The agent's operations leave the other subsystems alone.
AgentFrame == UNCHANGED <<sm, task, ais, call, ret>>

AgentInit ==
    /\ chat_id = None
    /\ requests = <<>>
    /\ streams = <<>>
    /\ outcome = Returned("init", None)

\* The session-id update of send_message, given the response's chat_id.
SendMessageUpdate_Overwrite(cur, got) == IF Truthy(got) THEN got ELSE cur
SendMessageUpdate(cur, got) ==
    IF ~Truthy(cur) /\ Truthy(got) THEN got ELSE cur

\* Agent.send_message without attachments or callbacks: post, then capture.
send_message(ok, got) ==
    /\ AgentFrame
    /\ Len(requests) < MaxRequests
    /\ requests' = Append(requests, Request("send_message", chat_id, None))
    /\ IF ok
         THEN /\ chat_id' = SendMessageUpdate(chat_id, got)
              /\ outcome' = Returned("send_message", got)
         ELSE /\ chat_id' = chat_id
              /\ outcome' = Raised("send_message", "RuntimeError")
    /\ UNCHANGED streams

\* Agent.get_chat(chat_id=arg).
get_chat_SessionFirst(arg, ok) ==
    LET cid == Or(chat_id, arg) IN
    /\ AgentFrame
    /\ IF ~Truthy(cid)
         THEN /\ outcome' = Returned("get_chat", None)
              /\ UNCHANGED <<chat_id, requests, streams>>
         ELSE /\ Len(requests) < MaxRequests
              /\ requests' = Append(requests, Request("get_chat", cid, arg))
              /\ outcome' = IF ok THEN Returned("get_chat", cid)
                                  ELSE Raised("get_chat", "RuntimeError")
              /\ UNCHANGED <<chat_id, streams>>
get_chat(arg, ok) ==
    LET cid == Or(arg, chat_id) IN
    /\ AgentFrame
    /\ IF ~Truthy(cid)
         THEN /\ outcome' = Returned("get_chat", None)
              /\ UNCHANGED <<chat_id, requests, streams>>
         ELSE /\ Len(requests) < MaxRequests
              /\ requests' = Append(requests, Request("get_chat", cid, arg))
              /\ outcome' = IF ok THEN Returned("get_chat", cid)
                                  ELSE Raised("get_chat", "RuntimeError")
              /\ UNCHANGED <<chat_id, streams>>

\* Agent.stop_chat().
stop_chat(ok) ==
    /\ AgentFrame
    /\ IF Truthy(chat_id)
         THEN /\ Len(requests) < MaxRequests
              /\ requests' = Append(requests, Request("stop_chat", chat_id, None))
              /\ outcome' = IF ok THEN Returned("stop_chat", None)
                                  ELSE Raised("stop_chat", "RuntimeError")
              /\ UNCHANGED <<chat_id, streams>>
         ELSE /\ outcome' = Returned("stop_chat", None)
              /\ UNCHANGED <<chat_id, requests, streams>>

\* Agent.submit_tool_result(tool_invocation_id, result).
submit_tool_result(ok) ==
    /\ AgentFrame
    /\ IF ~Truthy(chat_id)
         THEN /\ outcome' = Raised("submit_tool_result", "No active chat")
              /\ UNCHANGED <<chat_id, requests, streams>>
         ELSE /\ Len(requests) < MaxRequests
              /\ requests' = Append(requests, Request("submit_tool_result", chat_id, None))
              /\ outcome' = IF ok THEN Returned("submit_tool_result", None)
                                  ELSE Raised("submit_tool_result", "RuntimeError")
              /\ UNCHANGED <<chat_id, streams>>

\* Calling stream_messages / stream_chat.  Both are generator functions: the
\* call runs none of the body and returns the generator object.  The model
\* follows the generator created last; one it replaces is abandoned.
\* `pinned` records the chat id the session check of the body saw, and
\* `target` the chat the latest connection was opened against.
StartStream(kind) ==
    /\ AgentFrame
    /\ streams' = <<[kind |-> kind, pc |-> "created", target |-> None,
                     pinned |-> None]>>
    /\ outcome' = Returned(kind, Len(streams'))
    /\ UNCHANGED <<chat_id, requests>>

\* The first next() on the generator runs the body: the session check, and
\* past it the queue, the manager and the worker thread; the caller then
\* blocks on the queue.
StreamFirstNext(i) ==
    /\ AgentFrame
    /\ streams[i].pc = "created"
    /\ IF ~Truthy(chat_id)
         THEN /\ streams' = [streams EXCEPT ![i] = [@ EXCEPT !.pc = "raised"]]
              /\ outcome' = Raised("next", "No active chat - send a message first")
         ELSE /\ streams' = [streams EXCEPT ![i] = [@ EXCEPT !.pc = "starting",
                                                            !.pinned = chat_id]]
              /\ outcome' = [op |-> "next", kind |-> "blocked", value |-> i]
    /\ UNCHANGED <<chat_id, requests>>

stream_messages == StartStream("stream_messages")
stream_chat == StartStream("stream_chat")

\* create_event_source on the stream's worker: the endpoint is formatted from
\* self._chat_id when the connection is opened.
create_event_source(i) ==
    /\ AgentFrame
    /\ streams[i].pc = "starting"
    /\ Len(requests) < MaxRequests
    /\ streams' = [streams EXCEPT ![i] = [@ EXCEPT !.pc = "open", !.target = chat_id]]
    /\ requests' = Append(requests, Request(streams[i].kind, chat_id, None))
    /\ UNCHANGED <<chat_id, outcome>>

\* A reconnection of the stream's manager after the connection was lost:
\* the manager reopens through the same create_event_source, which formats
\* the endpoint from self._chat_id again.
Reconnect(i) ==
    /\ AgentFrame
    /\ streams[i].pc = "open"
    /\ Len(requests) < MaxRequests
    /\ streams' = [streams EXCEPT ![i] = [@ EXCEPT !.target = chat_id]]
    /\ requests' = Append(requests, Request(streams[i].kind, chat_id, None))
    /\ UNCHANGED <<chat_id, outcome>>

\* Agent.reset().
reset_KeepSession ==
    /\ AgentFrame
    /\ chat_id' = chat_id
    /\ outcome' = Returned("reset", None)
    /\ UNCHANGED <<requests, streams>>
reset ==
    /\ AgentFrame
    /\ chat_id' = None
    /\ outcome' = Returned("reset", None)
    /\ UNCHANGED <<requests, streams>>

AgentNext ==
    \/ \E ok \in BOOLEAN, got \in MaybeChatIds : send_message(ok, got)
    \/ \E arg \in MaybeChatIds, ok \in BOOLEAN : get_chat(arg, ok)
    \/ \E ok \in BOOLEAN : stop_chat(ok)
    \/ \E ok \in BOOLEAN : submit_tool_result(ok)
    \/ stream_messages
    \/ stream_chat
    \/ \E i \in 1..Len(streams) : StreamFirstNext(i)
    \/ \E i \in 1..Len(streams) : create_event_source(i)
    \/ \E i \in 1..Len(streams) : Reconnect(i)
    \/ reset

OthersIdleForAgent ==
    /\ sm = Idle /\ task = Idle /\ ais = Idle /\ call = Idle /\ ret = Idle

Init == AgentInit /\ OthersIdleForAgent
Next == AgentNext
Spec == Init /\ [][Next]_vars

SessionOps == {"send_message", "stop_chat", "submit_tool_result",
               "stream_messages", "stream_chat"}

PinnedStep ==
    /\ (chat_id # None =>
          \/ chat_id' = chat_id
          \/ chat_id' = None /\ outcome'.op = "reset")
    /\ (chat_id = None /\ chat_id' # None =>
          /\ outcome' = Returned("send_message", chat_id')
          /\ chat_id' \in ChatIds)
    /\ (chat_id # None /\ Len(requests') > Len(requests) =>
          LET r == requests'[Len(requests')] IN
          /\ r.op \in SessionOps => r.target = chat_id
          /\ r.op = "get_chat" /\ ~Truthy(r.arg) => r.target = chat_id)

(***************************************************************************)
(* C1: session pinning.  While a chat id is held, a step either keeps it   *)
(* or clears it (and only reset clears it); it is only ever set from       *)
(* absent, by send_message, to the id the response carried; and every      *)
(* request issued while an id is held (get_chat without argument,          *)
(* stop_chat, submit_tool_result, a stream connection, send_message)       *)
(* targets exactly that id.                                                *)
(***************************************************************************)
C1_SessionPinning == [][PinnedStep]_vars

\* A session pinned to c1 whose latest send_message was posted to c1 and got
\* a response carrying c2.
C1_Witness ==
    /\ chat_id = "c1"
    /\ outcome = Returned("send_message", "c2")
    /\ Len(requests) >= 2
    /\ requests[Len(requests)] = Request("send_message", "c1", None)

\* The request a step issued, if it issued one.
Issued == Len(requests') > Len(requests)
LastIssued == requests'[Len(requests')]

\* The streams whose worker thread has been started.
Workers(ss) == {i \in 1..Len(ss) : ss[i].pc \in {"starting", "open"}}

NeedsSession == {"submit_tool_result", "stream_messages", "stream_chat"}

InvalidStateStep ==
    ~Truthy(chat_id) /\ outcome' # outcome /\ outcome'.op \in NeedsSession =>
      /\ outcome'.kind = "raise"
      /\ requests' = requests
      /\ Workers(streams') = Workers(streams)

(***************************************************************************)
(* C11: InvalidState without a session.  A call of submit_tool_result,     *)
(* stream_messages or stream_chat made while no chat id is held raises at  *)
(* the call, and issues no request and starts no worker or connection.     *)
(***************************************************************************)
C11_InvalidStateWithoutSession == [][InvalidStateStep]_vars

FreshChatStep ==
    /\ (outcome' # outcome /\ outcome'.op = "reset" => chat_id' = None)
    /\ (chat_id = None /\ Issued /\ LastIssued.op = "send_message" =>
          /\ LastIssued.target = None
          /\ chat_id' = IF outcome'.kind = "return" /\ Truthy(outcome'.value)
                           THEN outcome'.value ELSE None)

(***************************************************************************)
(* C12: reset starts a fresh chat.  A reset leaves no chat id; a           *)
(* send_message made while none is held is posted with no chat id, and the *)
(* chat id its response carries becomes the session id (none is held still *)
(* if the request failed or the response carried none).                    *)
(***************************************************************************)
C12_ResetStartsFreshChat == [][FreshChatStep]_vars

\* A session that was c1 (a stop_chat went to c1), was reset, and is c2 after
\* a send_message posted with no chat id.
C12_Witness ==
    /\ chat_id = "c2"
    /\ outcome = Returned("send_message", "c2")
    /\ Len(requests) = 3
    /\ requests[1] = Request("send_message", None, None)
    /\ requests[2] = Request("stop_chat", "c1", None)
    /\ requests[3] = Request("send_message", None, None)

NoSessionStep ==
    /\ (~Truthy(chat_id) /\ Issued =>
          /\ LastIssued.op # "stop_chat"
          /\ LastIssued.op = "get_chat" => Truthy(LastIssued.arg))
    /\ (~Truthy(chat_id) /\ ~Issued /\ outcome' # outcome
           /\ outcome'.op \in {"get_chat", "stop_chat"} =>
          /\ outcome' = Returned(outcome'.op, None)
          /\ UNCHANGED <<chat_id, requests, streams>>)
    /\ (Issued /\ LastIssued.op = "get_chat" /\ Truthy(LastIssued.arg) =>
          LastIssued.target = LastIssued.arg)

(***************************************************************************)
(* C13: no-session no-ops.  While no chat id is held, get_chat without an  *)
(* argument returns None and stop_chat returns, neither issuing a request  *)
(* nor changing the agent; a get_chat given a chat id targets that id,     *)
(* whatever the session id is.                                             *)
(***************************************************************************)
C13_NoSessionNoOps == [][NoSessionStep]_vars

\* With no session, get_chat("c2") fetched c2 and a following get_chat()
\* returned None without a request.
C13_Witness ==
    /\ chat_id = None
    /\ requests = <<Request("get_chat", "c2", "c2")>>
    /\ outcome = Returned("get_chat", None)

(***************************************************************************)
(* Streaming connection manager (client.StreamManager, section 4.12) as    *)
(* stream_messages / stream_chat configure and consume it (agent.py).      *)
(***************************************************************************)
MaxReconnectsArg == 3       \* largest max_reconnects argument tried
MaxEvents == 2              \* events the server delivers over all connections

DefaultMaxReconnects == 5
DefaultReconnectDelayMs == 1000
ShortReconnectDelayMs == 250

Events == {"m1", "m2"}
StreamError == "ConnectionLost"
StopMarker == None

\* The arguments of one stream_messages(...) call.
StreamArgs ==
    [auto_reconnect : BOOLEAN,
     max_reconnects : 0..MaxReconnectsArg,
     reconnect_delay_ms : {DefaultReconnectDelayMs, ShortReconnectDelayMs}]

\* The configuration stream_messages hands to StreamManager.
ManagerConfig_DefaultBudget(args) ==
    [auto_reconnect |-> args.auto_reconnect,
     max_reconnects |-> DefaultMaxReconnects,
     reconnect_delay_ms |-> args.reconnect_delay_ms]
ManagerConfig(args) ==
    [auto_reconnect |-> args.auto_reconnect,
     max_reconnects |-> args.max_reconnects,
     reconnect_delay_ms |-> args.reconnect_delay_ms]

\* The state right after stream_messages started the worker thread.
StreamStart(args) ==
    [pc |-> "connect",              \* the manager's position
     args |-> args,
     config |-> ManagerConfig(args),
     opens |-> 0,                   \* times the factory opened the source
     reconnects |-> 0,              \* reconnect attempts made
     waits |-> <<>>,                \* the delays waited, in ms
     delivered |-> <<>>,            \* events handed to on_data, in order
     errors |-> 0,                  \* on_error invocations
     stops |-> 0,                   \* on_stop invocations
     callbacks |-> <<>>,            \* the callbacks invoked, in order
     stop_requested |-> FALSE,      \* manager.stop() was called
     queue |-> <<>>,                \* message_queue
     consumer |-> "iterating",      \* the caller's for loop
     got |-> <<>>]                  \* items the generator yielded

StreamFrame == UNCHANGED <<chat_id, requests, streams, outcome, task, ais, call, ret>>

ManagerRunning == sm.pc \in {"connect", "streaming", "waiting", "reopen"}

\* StreamManager.connect: open the source through the factory.
ManagerConnect ==
    /\ StreamFrame
    /\ sm.pc = "connect" /\ ~sm.stop_requested
    /\ sm' = [sm EXCEPT !.pc = "streaming", !.opens = @ + 1]

\* message_queue.put(item), as on_data, on_error and on_stop call it.
Put_Front(queue, item) == <<item>> \o queue
Put(queue, item) == Append(queue, item)

\* One decoded event: on_data puts it on the queue.
ManagerOnData(ev) ==
    /\ StreamFrame
    /\ sm.pc = "streaming" /\ ~sm.stop_requested
    /\ Len(sm.delivered) < MaxEvents
    /\ sm' = [sm EXCEPT !.delivered = Append(@, ev), !.queue = Put(@, ev),
                        !.callbacks = Append(@, "on_data")]

\* on_error and then on_stop, as the manager invokes them when it gives up.
GiveUp(s) ==
    [s EXCEPT !.pc = "stopped",
              !.errors = @ + 1, !.stops = @ + 1,
              !.queue = Put(Put(@, StreamError), StopMarker),
              !.callbacks = @ \o <<"on_error", "on_stop">>]

\* Whether a lost connection is followed by another attempt.
MayReconnect(s) ==
    s.config.auto_reconnect /\ s.reconnects < s.config.max_reconnects

\* The connection is lost: reconnect while the budget lasts, else on_error
\* and then on_stop.
ManagerConnectionLost ==
    /\ StreamFrame
    /\ sm.pc = "streaming" /\ ~sm.stop_requested
    /\ IF MayReconnect(sm)
         THEN sm' = [sm EXCEPT !.pc = "waiting"]
         ELSE sm' = GiveUp(sm)

\* Wait reconnect_delay_ms before the next attempt.
ManagerWait ==
    /\ StreamFrame
    /\ sm.pc = "waiting" /\ ~sm.stop_requested
    /\ sm' = [sm EXCEPT !.pc = "reopen",
                        !.waits = Append(@, sm.config.reconnect_delay_ms)]

\* A reconnect attempt: reopen via the factory; the attempt may itself fail.
ManagerReopen(up) ==
    /\ StreamFrame
    /\ sm.pc = "reopen" /\ ~sm.stop_requested
    /\ LET s == [sm EXCEPT !.reconnects = @ + 1, !.opens = @ + 1] IN
       IF up THEN sm' = [s EXCEPT !.pc = "streaming"]
       ELSE IF MayReconnect(s) THEN sm' = [s EXCEPT !.pc = "waiting"]
       ELSE sm' = GiveUp(s)

\* The loop notices an explicit stop request: on_stop alone.
ManagerStopped ==
    /\ StreamFrame
    /\ ManagerRunning /\ sm.stop_requested
    /\ sm' = [sm EXCEPT !.pc = "stopped", !.stops = @ + 1,
                        !.queue = Put(@, StopMarker),
                        !.callbacks = Append(@, "on_stop")]

\* The generator's loop body: take one item; None ends the sequence, an
\* error is raised, anything else is yielded.  Leaving the loop runs the
\* finally clause, manager.stop().
OnItem_YieldErrors(item) ==
    IF item = StopMarker THEN "break" ELSE "yield"
OnItem(item) ==
    IF item = StopMarker THEN "break"
    ELSE IF item = StreamError THEN "raise"
    ELSE "yield"

ConsumerGet ==
    /\ StreamFrame
    /\ sm.pc # "idle" /\ sm.consumer = "iterating" /\ sm.queue # <<>>
    /\ LET item == Head(sm.queue)
           s == [sm EXCEPT !.queue = Tail(@)] IN
       CASE OnItem(item) = "break" ->
              sm' = [s EXCEPT !.consumer = "ended", !.stop_requested = TRUE]
         [] OnItem(item) = "raise" ->
              sm' = [s EXCEPT !.consumer = "raised", !.stop_requested = TRUE]
         [] OnItem(item) = "yield" ->
              sm' = [s EXCEPT !.got = Append(@, item)]

\* The caller breaks out of its for loop.  If the loop held the only
\* reference to the generator it is closed at once and the finally clause
\* runs; if the caller keeps the generator it stays suspended at its yield.
ConsumerBreak(kept) ==
    /\ StreamFrame
    /\ sm.pc # "idle" /\ sm.consumer = "iterating" /\ sm.got # <<>>
    /\ sm' = IF kept THEN [sm EXCEPT !.consumer = "abandoned"]
             ELSE [sm EXCEPT !.consumer = "closed", !.stop_requested = TRUE]

\* An abandoned generator is closed (close() or its collection): the
\* finally clause runs.
GeneratorClose ==
    /\ StreamFrame
    /\ sm.pc # "idle" /\ sm.consumer = "abandoned"
    /\ sm' = [sm EXCEPT !.consumer = "closed", !.stop_requested = TRUE]

StreamInitState ==
    /\ chat_id = "c1" /\ requests = <<>> /\ streams = <<>>
    /\ outcome = Returned("send_message", "c1")
    /\ \E args \in StreamArgs : sm = StreamStart(args)
    /\ task = Idle /\ ais = Idle /\ call = Idle /\ ret = Idle

StreamNext ==
    \/ ManagerConnect
    \/ \E ev \in Events : ManagerOnData(ev)
    \/ ManagerConnectionLost
    \/ ManagerWait
    \/ \E up \in BOOLEAN : ManagerReopen(up)
    \/ ManagerStopped
    \/ ConsumerGet
    \/ \E kept \in BOOLEAN : ConsumerBreak(kept)
    \/ GeneratorClose
    \/ \E ok \in BOOLEAN : stop_chat(ok)

SpecStream == StreamInitState /\ [][StreamNext]_vars

(***************************************************************************)
(* C2: reconnect budget.  For a stream started with auto_reconnect and     *)
(* max_reconnects = N, never more than N reconnect attempts are made, each *)
(* attempt is preceded by one wait of the configured reconnect delay, and  *)
(* the stream terminates through on_error / on_stop only after exactly N   *)
(* attempts.                                                               *)
(***************************************************************************)
C2_ReconnectBudget ==
    sm.pc # "idle" =>
      LET N == sm.args.max_reconnects IN
      /\ sm.args.auto_reconnect => sm.reconnects <= N
      /\ ~sm.args.auto_reconnect => sm.reconnects = 0
      /\ \A i \in 1..Len(sm.waits) : sm.waits[i] = sm.args.reconnect_delay_ms
      /\ Len(sm.waits) \in {sm.reconnects, sm.reconnects + 1}
      /\ sm.pc = "reopen" => Len(sm.waits) = sm.reconnects + 1
      /\ sm.pc \in {"streaming", "waiting"} => Len(sm.waits) = sm.reconnects
      /\ sm.errors > 0 /\ sm.args.auto_reconnect =>
           sm.reconnects = N /\ Len(sm.waits) = N /\ sm.pc = "stopped"

\* The example's stream: three attempts were made and the consumer had the
\* failure raised to it.
C2_Witness ==
    /\ sm.pc = "stopped"
    /\ sm.args.auto_reconnect /\ sm.args.max_reconnects = 3
    /\ sm.reconnects = 3 /\ Len(sm.waits) = 3
    /\ sm.errors = 1 /\ sm.stops = 1
    /\ sm.consumer = "raised"

\* The events among the items of a queue, in order.
EventsIn(queue) == SelectSeq(queue, LAMBDA item : item \in Events)

LastTwo(seq) == SubSeq(seq, Len(seq) - 1, Len(seq))

MaxPolls == 3               \* status fetches one run call makes at most

TerminalStatuses == {"COMPLETED", "FAILED", "CANCELLED"}
NonTerminalStatuses == {"QUEUED", "RUNNING"}
TaskStatuses == TerminalStatuses \cup NonTerminalStatuses

\* The call run(params, wait=wait) before it has submitted anything.
RunStart(wait) ==
    [pc |-> "submit",
     wait |-> wait,
     remote |-> None,       \* the task's status at the remote service
     observed |-> None,     \* the status of the last snapshot run has seen
     polls |-> 0]

TaskFrame == UNCHANGED <<chat_id, requests, streams, outcome, sm, ais, call, ret>>

\* run submits the task; the response carries the status the service reports.
RunSubmit(st, ok) ==
    /\ TaskFrame
    /\ task.pc = "submit"
    /\ IF ok
         THEN task' = [task EXCEPT !.pc = "submitted", !.remote = st,
                                   !.observed = st]
         ELSE task' = [task EXCEPT !.pc = "raised"]

\* The remote service moves the task on; a terminal status is final.
RemoteAdvance(st) ==
    /\ TaskFrame
    /\ task.pc = "submitted"
    /\ task.remote \in NonTerminalStatuses
    /\ st # task.remote
    /\ ~(task.remote = "RUNNING" /\ st = "QUEUED")
    /\ task' = [task EXCEPT !.remote = st]

\* Whether run may hand the last snapshot back to its caller.
RunMayReturn_Always(wait, observed) == TRUE
RunMayReturn(wait, observed) == ~wait \/ observed \in TerminalStatuses

\* run, still waiting, fetches the task's current snapshot.
RunPoll(ok) ==
    /\ TaskFrame
    /\ task.pc = "submitted"
    /\ ~RunMayReturn(task.wait, task.observed)
    /\ task.polls < MaxPolls
    /\ IF ok
         THEN task' = [task EXCEPT !.observed = task.remote, !.polls = @ + 1]
         ELSE task' = [task EXCEPT !.pc = "raised", !.polls = @ + 1]

\* run returns the task record.
RunReturn ==
    /\ TaskFrame
    /\ task.pc = "submitted"
    /\ RunMayReturn(task.wait, task.observed)
    /\ task' = [task EXCEPT !.pc = "returned"]

TaskInitState ==
    /\ chat_id = None /\ requests = <<>> /\ streams = <<>>
    /\ outcome = Returned("init", None)
    /\ \E wait \in BOOLEAN : task = RunStart(wait)
    /\ sm = Idle /\ ais = Idle /\ call = Idle /\ ret = Idle

TaskNext ==
    \/ \E st \in TaskStatuses, ok \in BOOLEAN : RunSubmit(st, ok)
    \/ \E st \in TaskStatuses : RemoteAdvance(st)
    \/ \E ok \in BOOLEAN : RunPoll(ok)
    \/ RunReturn

SpecTask == TaskInitState /\ [][TaskNext]_vars

(***************************************************************************)
(* C3: run terminality.  A run(params) call made with wait = true has      *)
(* returned only if the status of the last snapshot it observed is         *)
(* COMPLETED, FAILED or CANCELLED.                                         *)
(***************************************************************************)
C3_RunTerminality ==
    task.pc = "returned" /\ task.wait => task.observed \in TerminalStatuses

\* A waiting run that polled more than once and returned a failed task.
C3_Witness ==
    /\ task.pc = "returned" /\ task.wait
    /\ task.polls >= 2 /\ task.observed = "FAILED"

(***************************************************************************)
(* Kernel iteration utility: aislast (kernel/utils.py).                    *)
(***************************************************************************)
MaxLen == 3                 \* longest source sequence tried

Items == {"x", "y"}

\* All sequences over S of length at most n.
SeqsUpTo(S, n) == UNION {[1..k -> S] : k \in 0..n}

\* it.__anext__() on a source that produces `src` and then either ends or
\* fails: the next item, the end of the iteration, or the source's error.
Anext(src, fails, pos) ==
    IF pos < Len(src) THEN [kind |-> "item", item |-> src[pos + 1]]
    ELSE IF fails THEN [kind |-> "error"]
    ELSE [kind |-> "stop"]

\* The generator before its first resumption.
AislastStart(src, fails) ==
    [pc |-> "first",
     src |-> src, fails |-> fails,
     pos |-> 0,             \* items obtained from the source
     e |-> None,            \* the buffered item
     out |-> <<>>]          \* the pairs yielded so far

\* Resuming the generator at its start: obtain the first item.
AislastFirstStep(s) ==
    LET n == Anext(s.src, s.fails, s.pos) IN
    CASE n.kind = "item" -> [s EXCEPT !.pc = "loop", !.e = n.item, !.pos = @ + 1]
      [] n.kind = "stop" -> [s EXCEPT !.pc = "done"]
      [] OTHER -> [s EXCEPT !.pc = "raised"]

\* Resuming the generator inside its loop: look one item ahead, then yield
\* the buffered one.
AislastLoopStep_NoLookahead(s) ==
    LET n == Anext(s.src, s.fails, s.pos) IN
    CASE n.kind = "item" ->
           [s EXCEPT !.out = Append(@, <<FALSE, n.item>>), !.e = n.item,
                     !.pos = @ + 1]
      [] n.kind = "stop" ->
           [s EXCEPT !.out = Append(@, <<TRUE, s.e>>), !.pc = "done"]
      [] OTHER -> [s EXCEPT !.pc = "raised"]
AislastLoopStep_FlushOnError(s) ==
    LET n == Anext(s.src, s.fails, s.pos) IN
    CASE n.kind = "item" ->
           [s EXCEPT !.out = Append(@, <<FALSE, s.e>>), !.e = n.item,
                     !.pos = @ + 1]
      [] n.kind = "stop" ->
           [s EXCEPT !.out = Append(@, <<TRUE, s.e>>), !.pc = "done"]
      [] OTHER -> [s EXCEPT !.out = Append(@, <<TRUE, s.e>>), !.pc = "raised"]
AislastLoopStep(s) ==
    LET n == Anext(s.src, s.fails, s.pos) IN
    CASE n.kind = "item" ->
           [s EXCEPT !.out = Append(@, <<FALSE, s.e>>), !.e = n.item,
                     !.pos = @ + 1]
      [] n.kind = "stop" ->
           [s EXCEPT !.out = Append(@, <<TRUE, s.e>>), !.pc = "done"]
      [] OTHER -> [s EXCEPT !.pc = "raised"]

AisFrame == UNCHANGED <<chat_id, requests, streams, outcome, sm, task, call, ret>>

AislastFirst ==
    /\ AisFrame
    /\ ais.pc = "first"
    /\ ais' = AislastFirstStep(ais)

AislastLoop ==
    /\ AisFrame
    /\ ais.pc = "loop"
    /\ ais' = AislastLoopStep(ais)

AisInitState ==
    /\ chat_id = None /\ requests = <<>> /\ streams = <<>>
    /\ outcome = Returned("init", None)
    /\ \E src \in SeqsUpTo(Items, MaxLen), fails \in BOOLEAN :
         ais = AislastStart(src, fails)
    /\ sm = Idle /\ task = Idle /\ call = Idle /\ ret = Idle

AisNext ==
    \/ AislastFirst
    \/ AislastLoop

SpecAislast == AisInitState /\ [][AisNext]_vars

(***************************************************************************)
(* C4: aislast correctness.  Over a source that produces n items and then  *)
(* ends, aislast yields the source's items in order, each paired with      *)
(* is_last = false except the n-th, which is paired with true; when it has *)
(* finished it has yielded exactly n pairs (none for an empty source).     *)
(***************************************************************************)
C4_Aislast ==
    ais.pc # "idle" /\ ~ais.fails =>
      /\ ais.pc # "raised"
      /\ Len(ais.out) <= Len(ais.src)
      /\ \A i \in 1..Len(ais.out) :
           ais.out[i] = <<i = Len(ais.src), ais.src[i]>>
      /\ ais.pc = "done" => Len(ais.out) = Len(ais.src)

\* aislast over [x, y, x] has finished with (false, x), (false, y), (true, x).
C4_Witness ==
    /\ ais.pc = "done" /\ ~ais.fails
    /\ ais.src = <<"x", "y", "x">>
    /\ ais.out = << <<FALSE, "x">>, <<FALSE, "y">>, <<TRUE, "x">> >>

(***************************************************************************)
(* Kernel executor (kernel/executor.py).  A call of one of the kernel's    *)
(* functions is held in `call` (its name and arguments) and its result in  *)
(* `ret`.                                                                  *)
(***************************************************************************)
Pending == [pc |-> "pending"]

\* The metadata of a context (AppContext.metadata).
TheMetadata == "metadata"

\* Parameter lists of an app's setup operation, self excluded.  A parameter
\* is its name and whether it has no default.
Param(name, required) == [name |-> name, required |-> required]
SetupSignatures ==
    { <<>>,
      <<Param("metadata", TRUE)>>,
      <<Param("config", TRUE)>>,
      <<Param("setup_data", TRUE), Param("metadata", TRUE)>>,
      <<Param("config", TRUE), Param("metadata", TRUE), Param("extra", FALSE)>>,
      <<Param("config", TRUE), Param("metadata", TRUE), Param("extra", TRUE)>> }

\* An app module: whether importing it works, the names it defines, the
\* signature of App.setup and whether the body of setup raises.
AppModules ==
    [importable : BOOLEAN,
     defines : SUBSET {"App", "AppInput", "AppOutput", "AppSetup"},
     setup_params : SetupSignatures,
     setup_raises : BOOLEAN]

\* Values passed as setup_data / input_data: absent, a string (valid or
\* malformed), a map (valid or not for the shape, or one whose keys are not
\* all strings), an instance of the shape, or a value of another type.
DataValues ==
    { [kind |-> "none"],
      [kind |-> "str", valid |-> TRUE], [kind |-> "str", valid |-> FALSE],
      [kind |-> "dict", valid |-> TRUE, str_keys |-> TRUE],
      [kind |-> "dict", valid |-> FALSE, str_keys |-> TRUE],
      [kind |-> "dict", valid |-> FALSE, str_keys |-> FALSE],
      [kind |-> "instance"],
      [kind |-> "other"] }

Ok(value) == [kind |-> "ok", value |-> value]
NoError == [kind |-> "none"]
Err(type, message) == [kind |-> "error", type |-> type, message |-> message]

\* AppContext.__init__.
AppContext ==
    [app |-> None, setup_complete |-> FALSE,
     AppInput |-> None, AppOutput |-> None, AppSetup |-> None,
     metadata |-> TheMetadata]

\* The coercion of setup_data in setup_app_instance: the setup model, or the
\* error raised.
SetupModel(AppSetup, setup_data) ==
    IF AppSetup = None THEN Ok(None)
    ELSE CASE setup_data.kind = "none" -> Ok("AppSetup()")
           [] setup_data.kind = "str" ->
                IF setup_data.valid THEN Ok("AppSetup.model_validate(json)")
                ELSE Err("ValueError", "Invalid setup data")
           [] setup_data.kind = "dict" ->
                IF ~setup_data.str_keys
                  THEN Err("TypeError", "keywords must be strings")
                ELSE IF setup_data.valid THEN Ok("AppSetup(**dict)")
                ELSE Err("ValueError", "validation error")
           [] setup_data.kind = "instance" -> Ok("setup_data")
           [] OTHER -> Err("ValueError", "Invalid setup type")

\* Python's binding of a call with `npos` positional arguments and the
\* keyword arguments `kw` to a parameter list.
Binds(params, npos, kw) ==
    /\ npos <= Len(params)
    /\ \A k \in kw : \E i \in (npos + 1)..Len(params) : params[i].name = k
    /\ \A i \in (npos + 1)..Len(params) :
         params[i].required => params[i].name \in kw

\* The call of app.setup that setup_app_instance makes, by the number of
\* parameters the signature declares.
SetupCall_AlwaysPositional(params, setup_model, metadata) ==
    [convention |-> "positional", args |-> <<setup_model, metadata>>,
     kwargs |-> {}]
SetupCall(params, setup_model, metadata) ==
    IF Len(params) >= 2
      THEN [convention |-> "positional", args |-> <<setup_model, metadata>>,
            kwargs |-> {}]
      ELSE [convention |-> "named", args |-> <<metadata>>,
            kwargs |-> {"metadata"}]

\* setup_app_instance(context, setup_data) on an app from module m: the
\* calls of app.setup it made and the error it raised, if any.
setup_app_instance(m, context, setup_data) ==
    LET model == SetupModel(context.AppSetup, setup_data) IN
    IF model.kind = "error" THEN [calls |-> <<>>, error |-> model]
    ELSE
      LET c == SetupCall(m.setup_params, model.value, context.metadata)
          npos == IF c.convention = "positional" THEN Len(c.args) ELSE 0
      IN
      [calls |-> <<c>>,
       error |-> IF ~Binds(m.setup_params, npos, c.kwargs)
                   THEN Err("TypeError", "setup() arguments")
                 ELSE IF m.setup_raises THEN Err("Exception", "setup failed")
                 ELSE NoError]

\* load_and_setup_app(context, app_path, src_path, setup_data): the context
\* it leaves, the setup calls made and the error raised, if any.
load_and_setup_app(m, context, setup_data) ==
    IF ~m.importable
      THEN [context |-> context, calls |-> <<>>,
            error |-> Err("ImportError", "import")]
    ELSE IF "App" \notin m.defines
      THEN [context |-> context, calls |-> <<>>,
            error |-> Err("AttributeError", "App")]
    ELSE
      LET c1 == [context EXCEPT !.app = "App()"] IN
      IF "AppInput" \notin m.defines
        THEN [context |-> c1, calls |-> <<>>,
              error |-> Err("AttributeError", "AppInput")]
      ELSE
        LET c2 == [c1 EXCEPT !.AppInput = "AppInput"] IN
        IF "AppOutput" \notin m.defines
          THEN [context |-> c2, calls |-> <<>>,
                error |-> Err("AttributeError", "AppOutput")]
        ELSE
          LET c3 == [c2 EXCEPT !.AppOutput = "AppOutput"]
              c4 == IF "AppSetup" \in m.defines
                      THEN [c3 EXCEPT !.AppSetup = "AppSetup"] ELSE c3
              r == setup_app_instance(m, c4, setup_data)
          IN
          IF r.error # NoError
            THEN [context |-> c4, calls |-> r.calls, error |-> r.error]
            ELSE [context |-> [c4 EXCEPT !.setup_complete = TRUE],
                  calls |-> r.calls, error |-> NoError]

\* validate_and_parse_input(InputCls, input_data): the input model, or the
\* error raised.  (input_data = None is a value of another type here.)
validate_and_parse_input_Lenient(input_data) ==
    CASE input_data.kind = "dict" ->
           IF ~input_data.str_keys
             THEN Err("TypeError", "keywords must be strings")
           ELSE IF input_data.valid THEN Ok("AppInput(**dict)")
           ELSE Err("ValueError", "validation error")
      [] input_data.kind = "str" ->
           IF input_data.valid THEN Ok("AppInput.model_validate(json)")
           ELSE Err("ValueError", "json or validation error")
      [] input_data.kind = "instance" -> Ok("input_data")
      [] OTHER -> Ok("AppInput()")
validate_and_parse_input(input_data) ==
    CASE input_data.kind = "dict" ->
           IF ~input_data.str_keys
             THEN Err("TypeError", "keywords must be strings")
           ELSE IF input_data.valid THEN Ok("AppInput(**dict)")
           ELSE Err("ValueError", "validation error")
      [] input_data.kind = "str" ->
           IF input_data.valid THEN Ok("AppInput.model_validate(json)")
           ELSE Err("ValueError", "json or validation error")
      [] input_data.kind = "instance" -> Ok("input_data")
      [] OTHER -> Err("ValueError", "Invalid input type")

\* The parameters App.run declares, self excluded, when an app overrides it
\* for the kernel's call.
RunParams == <<Param("input_data", TRUE), Param("metadata", TRUE)>>

\* The error of a failing run.  The message of an error raised by run is
\* the sequence of the pieces of its text, for run_app looks into it.
RunFailed == Err("Exception", <<"run failed">>)

\* BaseApp.run: `async def run(self, app_input)`, whose body raises
\* NotImplementedError when awaited.
BaseApp_run ==
    [kind |-> "awaitable", items |-> <<"x">>, fails |-> TRUE,
     params |-> <<Param("app_input", TRUE)>>,
     error |-> Err("NotImplementedError", <<"run method must be implemented">>)]

\* The run of an app: the parameters it declares and what a call hands
\* back, an async generator or another async iterable producing `items`
\* (and then failing with `error`, if `fails`), or an awaitable delivering
\* items[1] (or failing).
RunResults ==
    [kind : {"asyncgen", "aiter"}, items : SeqsUpTo(Items, MaxLen),
     fails : BOOLEAN, params : {RunParams}, error : {RunFailed}]
    \cup [kind : {"awaitable"}, items : [1..1 -> Items], fails : BOOLEAN,
          params : {RunParams}, error : {RunFailed}]
    \cup {BaseApp_run}

\* The keyword arguments of the call of run in execute_app_run.
RunKwargs == {"input_data", "metadata"}

\* execute_app_run(context, input_data) drained by its consumer: the calls
\* of app.run it made (the input model of each), the outputs yielded, in
\* order, and the error raised, if any.
execute_app_run_AwaitOnly(input_data, result) ==
    LET input_model == validate_and_parse_input(input_data) IN
    IF input_model.kind = "error"
      THEN [calls |-> <<>>, outputs |-> <<>>, error |-> input_model]
    ELSE
      LET calls == <<input_model.value>> IN
      IF ~Binds(result.params, 0, RunKwargs)
        THEN [calls |-> calls, outputs |-> <<>>,
              error |-> Err("TypeError", <<"run() got an unexpected keyword argument">>)]
      ELSE IF result.kind = "asyncgen"
        THEN [calls |-> calls, outputs |-> result.items,
              error |-> IF result.fails THEN result.error ELSE NoError]
      ELSE IF result.kind = "aiter"
        THEN [calls |-> calls, outputs |-> <<>>,
              error |-> Err("TypeError", <<"not awaitable">>)]
      ELSE IF result.fails
        THEN [calls |-> calls, outputs |-> <<>>, error |-> result.error]
      ELSE [calls |-> calls, outputs |-> <<result.items[1]>>, error |-> NoError]
execute_app_run(input_data, result) ==
    LET input_model == validate_and_parse_input(input_data) IN
    IF input_model.kind = "error"
      THEN [calls |-> <<>>, outputs |-> <<>>, error |-> input_model]
    ELSE
      LET calls == <<input_model.value>> IN
      IF ~Binds(result.params, 0, RunKwargs)
        THEN [calls |-> calls, outputs |-> <<>>,
              error |-> Err("TypeError", <<"run() got an unexpected keyword argument">>)]
      ELSE IF result.kind = "asyncgen"
        THEN [calls |-> calls, outputs |-> result.items,
              error |-> IF result.fails THEN result.error ELSE NoError]
      ELSE IF result.kind = "aiter"
        THEN [calls |-> calls, outputs |-> result.items,
              error |-> IF result.fails THEN result.error ELSE NoError]
      ELSE IF result.fails
        THEN [calls |-> calls, outputs |-> <<>>, error |-> result.error]
      ELSE [calls |-> calls, outputs |-> <<result.items[1]>>, error |-> NoError]

(***************************************************************************)
(* Kernel loader (kernel/loader.py).                                       *)
(***************************************************************************)
required_attrs == <<"App", "AppInput", "AppOutput">>

\* [x for x in seq if keep(x)], keeping the order of seq.
RECURSIVE Filter(_, _)
Filter(seq, keep) ==
    IF seq = <<>> THEN <<>>
    ELSE IF Head(seq) \in keep THEN <<Head(seq)>> \o Filter(Tail(seq), keep)
    ELSE Filter(Tail(seq), keep)

\* The message of the error _validate_module raises: the fixed prefix and
\* the names joined by ", ".
MissingMessage(names) ==
    [prefix |-> "Missing required classes in inference.py: ", names |-> names]

\* _validate_module(module).
ValidateModule_FirstMissing(m) ==
    LET missing_attrs ==
          Filter(required_attrs, {a \in {"App", "AppInput", "AppOutput"} : a \notin m.defines})
    IN
    IF missing_attrs # <<>>
      THEN Err("AttributeError", MissingMessage(<<Head(missing_attrs)>>))
      ELSE NoError
ValidateModule(m) ==
    LET missing_attrs ==
          Filter(required_attrs, {a \in {"App", "AppInput", "AppOutput"} : a \notin m.defines})
    IN
    IF missing_attrs # <<>>
      THEN Err("AttributeError", MissingMessage(missing_attrs))
      ELSE NoError

\* The import and validation that setup_app and load_app_module share: the
\* module is returned, or ImportError / the validation error is raised.
ImportAndValidate(m) ==
    IF ~m.importable
      THEN Err("ImportError", [prefix |-> "Failed to import ", names |-> <<>>])
    ELSE IF ValidateModule(m) # NoError THEN ValidateModule(m)
    ELSE Ok(m)

\* load_app_module(app_path, module_name).
load_app_module(m) == ImportAndValidate(m)

\* setup_app(source_dir, build_dir, module_name), after staging the sources.
setup_app(m) == ImportAndValidate(m)

(***************************************************************************)
(* Kernel schema generator: generate_example_value (kernel/schema.py).     *)
(* JSON values are written as their Python literals; Absent is a key the   *)
(* schema node does not carry.                                             *)
(***************************************************************************)
Absent == "<absent>"

ScalarTypes == {"string", "integer", "number", "boolean"}

\* Values tried per type.  The first of each pair is falsy in Python.
ValuesOf(t) ==
    CASE t = "string" -> {"''", "'abc'"}
      [] t = "integer" -> {"0", "5"}
      [] t = "number" -> {"0.0", "1.5"}
      [] t = "boolean" -> {"False", "True"}
      [] OTHER -> {}

Falsy == {"None", "''", "0", "0.0", "False", "[]", "{}"}

\* dict.get(key): None for a missing key.
Get(v) == IF v = Absent THEN None ELSE v

\* Python's `a or b` on values.
PyOr(a, b) == IF a \notin Falsy THEN a ELSE b

\* The fallback constant of a scalar type.
Fallback(t) ==
    CASE t = "string" -> "'example_string'"
      [] t = "integer" -> "0"
      [] t = "number" -> "0.0"
      [] t = "boolean" -> "False"

\* The type generate_example_value works with: the node's type ("string"
\* when it has none), replaced by the type of the first non-null
\* alternative of anyOf.
RECURSIVE FirstNonNull(_)
FirstNonNull(anyof) ==
    IF anyof = <<>> THEN Absent
    ELSE IF Head(anyof) # "null" THEN Head(anyof)
    ELSE FirstNonNull(Tail(anyof))

ResolvedType(node) ==
    LET type_ == IF node.type = Absent THEN "string" ELSE node.type IN
    IF FirstNonNull(node.anyOf) # Absent THEN FirstNonNull(node.anyOf)
    ELSE type_

\* A schema node without any key.  items holds the items schema, if the
\* node has one; properties the <<name, node>> pairs, in the map's order.
EmptyNode ==
    [type |-> Absent, anyOf |-> <<>>, example |-> Absent, default |-> Absent,
     items |-> <<>>, properties |-> <<>>]

\* Scalar schema nodes: an optional type, an optional anyOf, an optional
\* example and an optional (possibly null) default of the resolved type.
NodeShapes ==
    [type : ScalarTypes \cup {Absent, "null"},
     anyOf : {<<>>, <<"null">>} \cup
             UNION {{<<t, "null">>, <<"null", t>>} : t \in {"integer", "boolean"}}]

ScalarNodes ==
    UNION { [type : {sh.type}, anyOf : {sh.anyOf},
             example : ValuesOf(ResolvedType(sh)) \cup {Absent},
             default : ValuesOf(ResolvedType(sh)) \cup {Absent, None},
             items : {<<>>}, properties : {<<>>}]
            : sh \in NodeShapes }

\* Array and object nodes over a few scalar nodes.
IntegerNode(example, default) ==
    [EmptyNode EXCEPT !.type = "integer", !.example = example, !.default = default]
CompositeNodes ==
    { [EmptyNode EXCEPT !.type = "array"],
      [EmptyNode EXCEPT !.type = "array", !.items = <<IntegerNode("5", Absent)>>],
      [EmptyNode EXCEPT !.type = "array", !.items = <<IntegerNode("0", "5")>>],
      [EmptyNode EXCEPT !.type = "array", !.default = None],
      [EmptyNode EXCEPT !.type = "object"],
      [EmptyNode EXCEPT !.type = "object",
                        !.properties = << <<"b", IntegerNode(Absent, "5")>>,
                                          <<"a", EmptyNode>> >>] }

SchemaNodes == ScalarNodes \cup CompositeNodes

\* generate_example_value(field_schema).  An object's properties are a
\* sequence of <<name, node>> pairs, and so is the map built from them.
RECURSIVE generate_example_value(_)
generate_example_value(field_schema) ==
    LET type_ == ResolvedType(field_schema) IN
    IF type_ = "null" THEN None
    ELSE IF field_schema.default = None THEN None
    ELSE IF type_ \in ScalarTypes
      THEN PyOr(PyOr(Get(field_schema.example), Get(field_schema.default)),
                Fallback(type_))
    ELSE IF type_ = "array"
      THEN LET items == IF field_schema.items = <<>> THEN EmptyNode
                        ELSE field_schema.items[1]
           IN <<generate_example_value(items)>>
    ELSE IF type_ = "object"
      THEN LET properties == field_schema.properties
           IN [i \in 1..Len(properties) |->
                 <<properties[i][1], generate_example_value(properties[i][2])>>]
    ELSE None

(***************************************************************************)
(* The kernel's functions as operations: a call is drawn at the start and  *)
(* the operation it names computes its result.                             *)
(***************************************************************************)
KernelCalls ==
    [fn : {"load_and_setup_app"}, module : AppModules, setup_data : DataValues]
    \cup [fn : {"execute_app_run"}, input_data : DataValues, result : RunResults]
    \cup [fn : {"load_app_module", "setup_app"}, module : AppModules]
    \cup [fn : {"generate_example_value"}, field_schema : SchemaNodes]

KernelFrame == UNCHANGED <<chat_id, requests, streams, outcome, sm, task, ais, call>>

LoadAndSetupApp ==
    /\ KernelFrame
    /\ call.pc = "call" /\ call.fn = "load_and_setup_app" /\ ret = Pending
    /\ ret' = load_and_setup_app(call.args.module, AppContext, call.args.setup_data)

ExecuteAppRun ==
    /\ KernelFrame
    /\ call.pc = "call" /\ call.fn = "execute_app_run" /\ ret = Pending
    /\ ret' = execute_app_run(call.args.input_data, call.args.result)

LoadAppModule ==
    /\ KernelFrame
    /\ call.pc = "call" /\ call.fn = "load_app_module" /\ ret = Pending
    /\ ret' = load_app_module(call.args.module)

SetupApp ==
    /\ KernelFrame
    /\ call.pc = "call" /\ call.fn = "setup_app" /\ ret = Pending
    /\ ret' = setup_app(call.args.module)

GenerateExampleValue ==
    /\ KernelFrame
    /\ call.pc = "call" /\ call.fn = "generate_example_value" /\ ret = Pending
    /\ ret' = [kind |-> "ok", value |-> generate_example_value(call.args.field_schema)]

KernelInitState ==
    /\ chat_id = None /\ requests = <<>> /\ streams = <<>>
    /\ outcome = Returned("init", None)
    /\ sm = Idle /\ task = Idle /\ ais = Idle
    /\ \E c \in KernelCalls :
         call = [pc |-> "call", fn |-> c.fn, args |-> c]
    /\ ret = Pending

KernelNext ==
    \/ LoadAndSetupApp
    \/ ExecuteAppRun
    \/ LoadAppModule
    \/ SetupApp
    \/ GenerateExampleValue

SpecKernel == KernelInitState /\ [][KernelNext]_vars

\* A call of fn has been made and has ended.
Ended(fn) == call.pc = "call" /\ call.fn = fn /\ ret # Pending

\* Data the coercions accept for a declared shape.
Acceptable(data) ==
    \/ data.kind = "instance"
    \/ data.kind \in {"str", "dict"} /\ data.valid

(***************************************************************************)
(* C5: run-result normalization.  With valid input and a run that does not *)
(* fail, execute_app_run yields exactly one output, the awaited value,     *)
(* when run returns an awaitable, and exactly the items of the sequence,   *)
(* in order, when run returns an async generator or async iterable.        *)
(***************************************************************************)
C5_RunNormalization ==
    Ended("execute_app_run")
      /\ Acceptable(call.args.input_data) /\ ~call.args.result.fails =>
        /\ ret.error = NoError
        /\ ret.outputs = IF call.args.result.kind = "awaitable"
                           THEN <<call.args.result.items[1]>>
                           ELSE call.args.result.items

\* An async iterable of three values was drained into the same three.
C5_Witness ==
    /\ Ended("execute_app_run")
    /\ call.args.result = [kind |-> "aiter", items |-> <<"x", "y", "x">>,
                           fails |-> FALSE, params |-> RunParams,
                           error |-> RunFailed]
    /\ ret.outputs = <<"x", "y", "x">> /\ ret.error = NoError

\* The setup value load_and_setup_app passes for acceptable setup data.
ExpectedSetupValue(m, data) ==
    IF "AppSetup" \notin m.defines THEN None
    ELSE CASE data.kind = "none" -> "AppSetup()"
           [] data.kind = "str" -> "AppSetup.model_validate(json)"
           [] data.kind = "dict" -> "AppSetup(**dict)"
           [] data.kind = "instance" -> "setup_data"

\* setup takes the call of its calling convention and its body succeeds.
SetupTakesCall(m) ==
    /\ ~m.setup_raises
    /\ IF Len(m.setup_params) >= 2
         THEN \A i \in 3..Len(m.setup_params) : ~m.setup_params[i].required
         ELSE Len(m.setup_params) = 1 /\ m.setup_params[1].name = "metadata"

Range(seq) == {seq[i] : i \in 1..Len(seq)}

(***************************************************************************)
(* C7: loader validation.  For an importable module, load_app_module and   *)
(* setup_app return the module iff it defines App, AppInput and AppOutput; *)
(* otherwise they raise the missing-classes error whose message names each *)
(* absent class once and no present class.                                 *)
(***************************************************************************)
C7_LoaderValidation ==
    (Ended("load_app_module") \/ Ended("setup_app"))
      /\ call.args.module.importable =>
        LET m == call.args.module
            absent == {"App", "AppInput", "AppOutput"} \ m.defines
        IN
        IF absent = {}
          THEN ret = Ok(m)
          ELSE /\ ret.kind = "error" /\ ret.type = "AttributeError"
               /\ Range(ret.message.names) = absent
               /\ Len(ret.message.names) = Cardinality(absent)

\* A module missing AppInput and AppOutput: the message names both.
C7_Witness ==
    /\ Ended("load_app_module")
    /\ call.args.module.importable
    /\ call.args.module.defines = {"App", "AppSetup"}
    /\ ret.kind = "error"
    /\ ret.message.names = <<"AppInput", "AppOutput">>

(***************************************************************************)
(* C8: example-value priority.  For a node whose resolved type is string,  *)
(* integer, number or boolean and whose default is not null,               *)
(* generate_example_value returns the example whenever one is present      *)
(* (whatever its value), else the default whenever one is present, else    *)
(* the type's fallback constant.                                           *)
(***************************************************************************)
C8_ExamplePriority ==
    Ended("generate_example_value")
      /\ ResolvedType(call.args.field_schema) \in ScalarTypes
      /\ call.args.field_schema.default # None =>
        LET node == call.args.field_schema IN
        ret.value = IF node.example # Absent THEN node.example
                    ELSE IF node.default # Absent THEN node.default
                    ELSE Fallback(ResolvedType(node))

(***************************************************************************)
(* Ordered schema (models/base.py): OrderedSchemaModel.model_json_schema   *)
(* and _get_field_order.                                                   *)
(***************************************************************************)
FieldNames == {"a", "b", "c"}

\* The statements of a class body, in textual order: an annotated
\* assignment to a name, or any other statement.
BodyNodes == [kind : {"ann"}, name : FieldNames] \cup {[kind |-> "other", name |-> None]}

\* The injective sequences over S: every arrangement of every subset.
Arrangements(S) ==
    {q \in SeqsUpTo(S, Cardinality(S)) :
       \A i, j \in 1..Len(q) : i # j => q[i] # q[j]}

\* The schema the parent class generates: the property names in the order
\* of its properties map, and its required list (empty when absent).
BaseSchemas ==
    UNION { [properties : {ps}, required : Arrangements({ps[i] : i \in 1..Len(ps)})]
            : ps \in Arrangements(FieldNames) }

\* A shape: whether its source text can be retrieved, its class body and
\* the schema generated for it before reordering.
Shapes ==
    [source : BOOLEAN, body : SeqsUpTo(BodyNodes, MaxLen), schema : BaseSchemas]

\* _get_field_order: the targets of the annotated assignments of the class
\* body, in order.
RECURSIVE FieldOrderOf(_)
FieldOrderOf(body) ==
    IF body = <<>> THEN <<>>
    ELSE IF Head(body).kind = "ann"
      THEN <<Head(body).name>> \o FieldOrderOf(Tail(body))
    ELSE FieldOrderOf(Tail(body))

_get_field_order(cls) ==
    IF ~cls.source THEN Err("OSError", "could not get source code")
    ELSE Ok(FieldOrderOf(cls.body))

\* Insertion of the names of `seq` into an ordered map that holds `acc`:
\* a name already present keeps its place.
RECURSIVE InsertAll(_, _)
InsertAll(acc, seq) ==
    IF seq = <<>> THEN acc
    ELSE IF \E i \in 1..Len(acc) : acc[i] = Head(seq)
      THEN InsertAll(acc, Tail(seq))
    ELSE InsertAll(Append(acc, Head(seq)), Tail(seq))

\* The reordered properties map.
OrderProperties(field_order, properties) ==
    LET present == {properties[i] : i \in 1..Len(properties)}
        ordered_properties == InsertAll(<<>>, Filter(field_order, present))
    IN InsertAll(ordered_properties, properties)

\* The reordered required list.
OrderRequired_Unchanged(field_order, required) == required
OrderRequired(field_order, required) ==
    LET ordered_required ==
          Filter(field_order, {required[i] : i \in 1..Len(required)})
        placed == {ordered_required[i] : i \in 1..Len(ordered_required)}
    IN ordered_required \o
       Filter(required, {required[i] : i \in 1..Len(required)} \ placed)

\* OrderedSchemaModel.model_json_schema.
model_json_schema(cls) ==
    LET field_order == _get_field_order(cls) IN
    IF field_order.kind = "error" THEN field_order
    ELSE IF field_order.value = <<>> THEN Ok(cls.schema)
    ELSE Ok([properties |-> OrderProperties(field_order.value, cls.schema.properties),
             required |-> IF cls.schema.required = <<>> THEN <<>>
                          ELSE OrderRequired(field_order.value, cls.schema.required)])

(***************************************************************************)
(* File model (models/file.py).  A string that names a location is the     *)
(* sequence of its segments: "/" first for an absolute path, the scheme    *)
(* first for a URL, no segment for the empty string.                       *)
(***************************************************************************)
NoStr == <<"<None>">>                         \* None where a string may stand
EmptyStr == <<>>                              \* ""
RelPath == <<"report.pdf">>                   \* "report.pdf"
AbsPath == <<"/", "data", "in.bin">>          \* "/data/in.bin"
HttpUrl == <<"https:", "host", "pic.png">>    \* "https://host/pic.png"
Cwd == <<"/", "work">>                        \* os.getcwd()
TmpFile == <<"/", "tmp", "tmpfile.png">>      \* NamedTemporaryFile(...).name

Strings == {EmptyStr, RelPath, AbsPath, HttpUrl}
OptStrings == Strings \cup {NoStr}

\* Truth value of an optional string.
StrTruthy(v) == v # NoStr /\ v # EmptyStr

\* os.path.isabs and os.path.abspath on a non-empty string.
IsAbs(p) == p # <<>> /\ p[1] = "/"
Abspath(p) == IF IsAbs(p) THEN p ELSE Cwd \o p

\* File._is_url.
_is_url(p) == p # <<>> /\ p[1] \in {"http:", "https:"}

\* Files that exist already (to be passed as initializer).
ExistingFiles ==
    { [uri |-> RelPath, path |-> Cwd \o RelPath],
      [uri |-> NoStr, path |-> AbsPath],
      [uri |-> HttpUrl, path |-> TmpFile] }

\* What may be passed as the positional initializer: nothing, a string, a
\* File, or a value of another type.
Initializers ==
    {[kind |-> "none"], [kind |-> "other"]}
    \cup [kind : {"str"}, str : Strings]
    \cup [kind : {"file"}, file : ExistingFiles]

\* File.model_post_init on the validated fields; download_ok says whether
\* fetching a URL succeeds.
model_post_init_KeepRelative(data, download_ok) ==
    IF StrTruthy(data.uri) /\ _is_url(data.uri) /\ ~download_ok
      THEN Err("RuntimeError", "Error downloading URL")
    ELSE
      LET path1 == IF ~StrTruthy(data.uri) THEN data.path
                   ELSE IF _is_url(data.uri) THEN TmpFile
                   ELSE data.uri
      IN IF StrTruthy(path1)
           THEN Ok([uri |-> data.uri, path |-> path1])
           ELSE Err("ValueError", "Either 'uri' or 'path' must be provided and be valid")
model_post_init(data, download_ok) ==
    IF StrTruthy(data.uri) /\ _is_url(data.uri) /\ ~download_ok
      THEN Err("RuntimeError", "Error downloading URL")
    ELSE
      LET path1 == IF ~StrTruthy(data.uri) THEN data.path
                   ELSE IF _is_url(data.uri) THEN TmpFile
                   ELSE Abspath(data.uri)
      IN IF StrTruthy(path1)
           THEN Ok([uri |-> data.uri, path |-> Abspath(path1)])
           ELSE Err("ValueError", "Either 'uri' or 'path' must be provided and be valid")

\* File.validate_required_fields, the validator run on the built model.
validate_required_fields(file) ==
    IF ~StrTruthy(file.uri) /\ ~StrTruthy(file.path)
      THEN Err("ValueError", "Either 'uri' or 'path' must be provided")
      ELSE Ok(file)

\* Validation of the field data: post-init, then the model validator.
ValidateFile(data, download_ok) ==
    LET built == model_post_init(data, download_ok) IN
    IF built.kind = "error" THEN built
    ELSE validate_required_fields(built.value)

\* File.__init__(initializer, uri=..., path=...).
FileInit(initializer, uri, path, download_ok) ==
    CASE initializer.kind = "none" ->
           ValidateFile([uri |-> uri, path |-> path], download_ok)
      [] initializer.kind = "str" ->
           ValidateFile([uri |-> initializer.str, path |-> path], download_ok)
      [] initializer.kind = "file" ->
           ValidateFile(initializer.file, download_ok)
      [] OTHER -> Err("ValueError", "Invalid input for File")

\* File.convert_str_to_file followed by validation: File.model_validate(v)
\* for a string, a map or a value of another type.
FileValidate(value, download_ok) ==
    CASE value.kind = "str" ->
           ValidateFile([uri |-> value.str, path |-> NoStr], download_ok)
      [] value.kind = "dict" ->
           ValidateFile([uri |-> value.uri, path |-> value.path], download_ok)
      [] OTHER -> Err("ValueError", "Invalid input for File")

(***************************************************************************)
(* The models' functions as operations.                                    *)
(***************************************************************************)
ModelCalls ==
    [fn : {"model_json_schema"}, cls : Shapes]
    \cup [fn : {"File"}, initializer : Initializers, uri : OptStrings,
          path : OptStrings, download_ok : BOOLEAN]
    \cup [fn : {"File.model_validate"},
          value : [kind : {"str"}, str : Strings]
                  \cup [kind : {"dict"}, uri : OptStrings, path : OptStrings]
                  \cup {[kind |-> "other"]},
          download_ok : BOOLEAN]

ModelJsonSchema ==
    /\ KernelFrame
    /\ call.pc = "call" /\ call.fn = "model_json_schema" /\ ret = Pending
    /\ ret' = model_json_schema(call.args.cls)

FileConstruct ==
    /\ KernelFrame
    /\ call.pc = "call" /\ call.fn = "File" /\ ret = Pending
    /\ ret' = FileInit(call.args.initializer, call.args.uri, call.args.path,
                       call.args.download_ok)

FileModelValidate ==
    /\ KernelFrame
    /\ call.pc = "call" /\ call.fn = "File.model_validate" /\ ret = Pending
    /\ ret' = FileValidate(call.args.value, call.args.download_ok)

ModelsInitState ==
    /\ chat_id = None /\ requests = <<>> /\ streams = <<>>
    /\ outcome = Returned("init", None)
    /\ sm = Idle /\ task = Idle /\ ais = Idle
    /\ \E c \in ModelCalls :
         call = [pc |-> "call", fn |-> c.fn, args |-> c]
    /\ ret = Pending

ModelsNext ==
    \/ ModelJsonSchema
    \/ FileConstruct
    \/ FileModelValidate

SpecModels == ModelsInitState /\ [][ModelsNext]_vars

\* The first position of x in seq.
Pos(seq, x) == CHOOSE i \in 1..Len(seq) : seq[i] = x /\ \A j \in 1..(i - 1) : seq[j] # x

\* The position in the body of the annotated assignment to x.
BodyPos(body, x) == CHOOSE i \in 1..Len(body) : body[i].kind = "ann" /\ body[i].name = x

\* `out` lists the names of `orig`: those the body declares first, in body
\* order, then the others in the order of `orig`.
DeclarationOrdered(body, orig, out) ==
    LET declared == {body[i].name : i \in {k \in 1..Len(body) : body[k].kind = "ann"}} IN
    /\ Len(out) = Len(orig)
    /\ Range(out) = Range(orig)
    /\ \A x, y \in Range(orig) :
         x # y =>
           (Pos(out, x) < Pos(out, y) <=>
              IF x \in declared /\ y \in declared
                THEN BodyPos(body, x) < BodyPos(body, y)
              ELSE IF x \in declared \/ y \in declared THEN x \in declared
              ELSE Pos(orig, x) < Pos(orig, y))

AnnotatedOnce(body) ==
    \A i, j \in 1..Len(body) :
      i # j /\ body[i].kind = "ann" /\ body[j].kind = "ann" => body[i].name # body[j].name

(***************************************************************************)
(* C9: ordered schema.  For a shape whose source is available and whose    *)
(* body annotates each field once, the generated schema lists, in both the *)
(* properties map and the required list, first the fields the class body   *)
(* declares, in their textual order, and then the fields the ordering pass *)
(* cannot place, in their original relative order; nothing is added or     *)
(* lost.                                                                   *)
(***************************************************************************)
C9_OrderedSchema ==
    Ended("model_json_schema")
      /\ call.args.cls.source /\ AnnotatedOnce(call.args.cls.body) =>
        /\ ret.kind = "ok"
        /\ DeclarationOrdered(call.args.cls.body, call.args.cls.schema.properties,
                              ret.value.properties)
        /\ DeclarationOrdered(call.args.cls.body, call.args.cls.schema.required,
                              ret.value.required)

\* A shape declaring b, a, c whose unordered schema lists a, b, c.
C9_Witness ==
    /\ Ended("model_json_schema")
    /\ call.args.cls.source
    /\ FieldOrderOf(call.args.cls.body) = <<"b", "a", "c">>
    /\ call.args.cls.schema = [properties |-> <<"a", "b", "c">>,
                               required |-> <<"a", "b", "c">>]
    /\ ret.value = [properties |-> <<"b", "a", "c">>,
                    required |-> <<"b", "a", "c">>]

(***************************************************************************)
(* C10: File uri/path invariant.  Constructing a File with neither a       *)
(* non-empty uri nor a non-empty path fails with ValueError; every File    *)
(* that is constructed has a non-empty absolute path (a relative uri gives *)
(* the working directory joined with it); and constructing from a bare     *)
(* string gives what supplying that string as uri gives.                   *)
(***************************************************************************)
C10_FileInvariant ==
    /\ Ended("File") =>
         LET a == call.args IN
         /\ a.initializer.kind = "none" /\ ~StrTruthy(a.uri) /\ ~StrTruthy(a.path) =>
              ret.kind = "error" /\ ret.type = "ValueError"
         /\ ret.kind = "ok" => IsAbs(ret.value.path)
         /\ a.initializer.kind = "none" /\ a.uri = RelPath =>
              ret.kind = "ok" /\ ret.value.path = Cwd \o RelPath
         /\ a.initializer.kind = "str" =>
              ret = FileInit([kind |-> "none"], a.initializer.str, a.path,
                             a.download_ok)
    /\ Ended("File.model_validate") =>
         LET a == call.args IN
         /\ a.value.kind = "dict" /\ ~StrTruthy(a.value.uri) /\ ~StrTruthy(a.value.path) =>
              ret.kind = "error" /\ ret.type = "ValueError"
         /\ ret.kind = "ok" => IsAbs(ret.value.path)
         /\ a.value.kind = "str" =>
              ret = FileInit([kind |-> "none"], a.value.str, NoStr, a.download_ok)

\* File("report.pdf") was constructed with the absolute path /work/report.pdf.
C10_Witness ==
    /\ Ended("File")
    /\ call.args.initializer = [kind |-> "str", str |-> RelPath]
    /\ call.args.path = NoStr
    /\ ret.kind = "ok"
    /\ ret.value = [uri |-> RelPath, path |-> <<"/", "work", "report.pdf">>]

(***************************************************************************)
(* Agent remote calls: _request, upload_file, and the routing of uploaded  *)
(* attachments in send_message (agent.py).                                 *)
(***************************************************************************)
MaxFiles == 3               \* most attachments one send_message is given

ServerMessage == "quota exceeded"
GenericMessage == "Request failed"

\* payload["error"]: missing, JSON null, an object with or without a
\* message, or a bare string.
ErrorValues ==
    {[kind |-> "absent"], [kind |-> "null"]}
    \cup {[kind |-> "dict", message |-> m] : m \in {Absent, "", ServerMessage}}
    \cup {[kind |-> "str", text |-> t] : t \in {"", "boom"}}

Envelopes ==
    [success : {"True", "False", Absent}, error : ErrorValues,
     data : {"data", Absent}]

\* The {} that stands in for the payload of a response without text.
EmptyPayload ==
    [success |-> Absent, error |-> [kind |-> "absent"], data |-> Absent]

\* resp.text: empty, text that is not JSON, or an envelope.
Bodies ==
    {[kind |-> "empty"], [kind |-> "not_json"]}
    \cup {[kind |-> "json", payload |-> e] : e \in Envelopes}

Responses == [ok : BOOLEAN, body : Bodies]

\* msg = error.get("message") if isinstance(error, dict) else str(error)
ErrorMessage(error) ==
    CASE error.kind = "absent" -> None
      [] error.kind = "dict" -> Get(error.message)
      [] error.kind = "null" -> "'None'"
      [] error.kind = "str" -> error.text

\* Agent._request, from the response requests.request returned.
_request(resp) ==
    IF resp.body.kind = "not_json"
      THEN Err("JSONDecodeError", "Expecting value")
    ELSE
      LET payload == IF resp.body.kind = "empty" THEN EmptyPayload
                     ELSE resp.body.payload IN
      IF ~resp.ok \/ Get(payload.success) \in Falsy
        THEN Err("RuntimeError", Or(ErrorMessage(payload.error), GenericMessage))
        ELSE Ok(Get(payload.data))

\* What upload_file returned for each attachment: its uri and the content
\* type of the registered file (None if the registration carried none).
ContentTypes == {"image/png", "image/jpeg", "text/plain", None}
IsImage(ct) == ct \in {"image/png", "image/jpeg"}
UriOf(i) == <<"u1", "u2", "u3", "u4", "u5">>[i]
Uploaded(cts) ==
    [i \in 1..Len(cts) |-> [uri |-> UriOf(i), content_type |-> cts[i]]]

NoFiles == [kind |-> "none"]
FileList(uris) == [kind |-> "list", items |-> uris]

\* send_message: the image and files fields of the posted input.
AttachmentFields(uploaded) ==
    IF uploaded = <<>>
      THEN Ok([image |-> None, files |-> NoFiles])
    ELSE IF \E i \in 1..Len(uploaded) : uploaded[i].content_type = None
      THEN Err("AttributeError", "'NoneType' object has no attribute 'startswith'")
    ELSE
      LET images == SelectSeq(uploaded, LAMBDA f : IsImage(f.content_type))
          others == SelectSeq(uploaded, LAMBDA f : ~IsImage(f.content_type))
      IN Ok([image |-> IF images # <<>> THEN images[1].uri ELSE None,
             files |-> IF others # <<>>
                         THEN FileList([i \in 1..Len(others) |-> others[i].uri])
                         ELSE NoFiles])

\* The argument of upload_file: bytes, a string starting with "data:" that
\* matches the data-URI pattern or not, or a bare base64 string; a base64
\* payload decodes or not.
UploadData ==
    {[kind |-> "bytes"]}
    \cup [kind : {"data_uri"}, matches : BOOLEAN, decodes : BOOLEAN,
          content_type : {"image/png", "text/plain"}]
    \cup [kind : {"base64"}, decodes : BOOLEAN]

OctetStream == "application/octet-stream"

\* upload_file: content type and raw bytes of the argument.
Decode(data) ==
    CASE data.kind = "bytes" -> Ok(OctetStream)
      [] data.kind = "data_uri" ->
           IF ~data.matches THEN Err("ValueError", "Invalid data URI")
           ELSE IF ~data.decodes THEN Err("binascii.Error", "Incorrect padding")
           ELSE Ok(data.content_type)
      [] data.kind = "base64" ->
           IF data.decodes THEN Ok(OctetStream)
           ELSE Err("binascii.Error", "Incorrect padding")

\* What POST /files answers: a failure, or the created file record.
RegisterResponses ==
    {[kind |-> "api_error"]}
    \cup [kind : {"created"}, upload_url : {Absent, "", "https://signed"},
          uri : {"inf://file"}, content_type : {"image/png", Absent}]

\* upload_url = file_obj.get("upload_url"); `if not upload_url` guards the transfer.
HasUploadUrl_Unchecked(file_obj) == TRUE
HasUploadUrl(file_obj) == Truthy(Get(file_obj.upload_url))

RemoteCalls ==
    [fn : {"_request"}, resp : Responses]
    \cup [fn : {"send_message"}, uploaded : {Uploaded(cts) : cts \in SeqsUpTo(ContentTypes, MaxFiles)}]

Request_ ==
    /\ KernelFrame
    /\ call.pc = "call" /\ call.fn = "_request" /\ ret = Pending
    /\ ret' = _request(call.args.resp)

SendMessageAttachments ==
    /\ KernelFrame
    /\ call.pc = "call" /\ call.fn = "send_message" /\ ret = Pending
    /\ ret' = AttachmentFields(call.args.uploaded)

UploadFrame == UNCHANGED <<chat_id, requests, streams, outcome, sm, task, ais>>

\* upload_file up to the registration: decode the argument.
UploadDecode ==
    /\ UploadFrame
    /\ call.fn = "upload_file" /\ call.pc = "decode"
    /\ LET d == Decode(call.args.data) IN
       IF d.kind = "error"
         THEN call' = [call EXCEPT !.pc = "raised"] /\ ret' = d
         ELSE call' = [call EXCEPT !.pc = "register", !.content_type = d.value]
              /\ ret' = ret

\* POST /files and the check of the upload target.
UploadRegister(r) ==
    /\ UploadFrame
    /\ call.fn = "upload_file" /\ call.pc = "register"
    /\ LET c == [call EXCEPT !.log = Append(@, [op |-> "register", resp |-> r])] IN
       IF r.kind = "api_error"
         THEN call' = [c EXCEPT !.pc = "raised"]
              /\ ret' = Err("RuntimeError", GenericMessage)
       ELSE IF ~HasUploadUrl(r)
         THEN call' = [c EXCEPT !.pc = "raised"]
              /\ ret' = Err("RuntimeError", "No upload URL")
       ELSE call' = [c EXCEPT !.pc = "transfer"] /\ ret' = ret

\* PUT of the bytes to the signed URL, and the return.
UploadTransfer(ok) ==
    /\ UploadFrame
    /\ call.fn = "upload_file" /\ call.pc = "transfer"
    /\ LET file_obj == call.log[Len(call.log)].resp
           c == [call EXCEPT !.log = Append(@, [op |-> "transfer", ok |-> ok])] IN
       IF ~ok
         THEN call' = [c EXCEPT !.pc = "raised"]
              /\ ret' = Err("RuntimeError", "Upload failed")
         ELSE call' = [c EXCEPT !.pc = "returned"]
              /\ ret' = Ok([uri |-> file_obj.uri,
                            content_type |-> Get(file_obj.content_type)])

RemoteInitState ==
    /\ chat_id = None /\ requests = <<>> /\ streams = <<>>
    /\ outcome = Returned("init", None)
    /\ sm = Idle /\ task = Idle /\ ais = Idle
    /\ \/ \E c \in RemoteCalls : call = [pc |-> "call", fn |-> c.fn, args |-> c]
       \/ \E d \in UploadData :
            call = [pc |-> "decode", fn |-> "upload_file", args |-> [data |-> d],
                    content_type |-> None, log |-> <<>>]
    /\ ret = Pending

RemoteNext ==
    \/ Request_
    \/ SendMessageAttachments
    \/ UploadDecode
    \/ \E r \in RegisterResponses : UploadRegister(r)
    \/ \E ok \in BOOLEAN : UploadTransfer(ok)

SpecRemote == RemoteInitState /\ [][RemoteNext]_vars

\* How many of the message's fields reference a uri.
RECURSIVE Count(_, _)
Count(seq, x) ==
    IF seq = <<>> THEN 0
    ELSE (IF Head(seq) = x THEN 1 ELSE 0) + Count(Tail(seq), x)

References(fields, uri) ==
    (IF fields.image = uri THEN 1 ELSE 0)
    + (IF fields.files.kind = "list" THEN Count(fields.files.items, uri) ELSE 0)

(***************************************************************************)
(* C14: attachment routing.  In the message send_message posts, the first  *)
(* image attachment is the image field, and every uploaded attachment is   *)
(* referenced exactly once, by the image field or by the files list.       *)
(***************************************************************************)
C14_AttachmentRouting ==
    Ended("send_message") /\ ret.kind = "ok" =>
      LET up == call.args.uploaded IN
      /\ \A i \in 1..Len(up) : References(ret.value, up[i].uri) = 1
      /\ \A i \in 1..Len(up) :
           IsImage(up[i].content_type)
             /\ (\A j \in 1..(i - 1) : ~IsImage(up[j].content_type))
           => ret.value.image = up[i].uri

\* The message the server supplied with a failure, if it supplied one.
SuppliedMessage(resp) ==
    IF resp.body.kind # "json" THEN None
    ELSE LET e == resp.body.payload.error IN
         CASE e.kind = "dict" -> Get(e.message)
           [] e.kind = "str" -> e.text
           [] OTHER -> None

(***************************************************************************)
(* C19: remote-call failure.  _request returns the envelope's data iff the *)
(* response is a success and the envelope's success flag is true; in every *)
(* other case it raises RuntimeError with the message the server supplied, *)
(* or "Request failed" when it supplied none.                              *)
(***************************************************************************)
C19_RemoteCallFailure ==
    Ended("_request") =>
      LET resp == call.args.resp IN
      IF resp.ok /\ resp.body.kind = "json" /\ resp.body.payload.success = "True"
        THEN ret = Ok(Get(resp.body.payload.data))
        ELSE ret = Err("RuntimeError", Or(SuppliedMessage(resp), GenericMessage))

UploadOps(log) == [i \in 1..Len(log) |-> log[i].op]

MaxStreamed == 2            \* messages the worker's stream yields at most

\* inv.get("function", {}): a descriptor, or nothing (every key missing).
Functions ==
    {[name |-> "calc", arguments |-> "{x: 1}"],
     [name |-> Absent, arguments |-> Absent]}

ToolInvocations(id) ==
    [id : {id}, type : {"client", "app"},
     status : {"awaiting_input", "completed"}, function : Functions]

\* message.get("tool_invocations"): none (missing or empty), one or two.
InvocationLists ==
    {<<>>}
    \cup {<<a>> : a \in ToolInvocations("t1")}
    \cup {<<a, b>> : a \in ToolInvocations("t1"),
                    b \in {i \in ToolInvocations("t2") : i.function.name # Absent}}

StreamedMessages == [tool_invocations : InvocationLists]

\* The test guarding on_tool_call.
IsPendingClientCall_AnyStatus(inv) == inv.type = "client"
IsPendingClientCall(inv) ==
    inv.type = "client" /\ inv.status = "awaiting_input"

ToolCallInfo(inv) ==
    [id |-> inv.id,
     name |-> IF inv.function.name = Absent THEN "" ELSE inv.function.name,
     args |-> IF inv.function.arguments = Absent THEN "{}"
              ELSE inv.function.arguments]

RECURSIVE ToolCalls(_)
ToolCalls(invs) ==
    IF invs = <<>> THEN <<>>
    ELSE (IF IsPendingClientCall(Head(invs))
            THEN <<[cb |-> "on_tool_call", arg |-> ToolCallInfo(Head(invs))]>>
            ELSE <<>>)
         \o ToolCalls(Tail(invs))

\* The body of run_stream's loop for one message: the callbacks it invokes.
Dispatch(message, on_message, on_tool_call) ==
    (IF on_message THEN <<[cb |-> "on_message", arg |-> message]>> ELSE <<>>)
    \o (IF on_tool_call THEN ToolCalls(message.tool_invocations) ELSE <<>>)

\* Whether send_message may return whatever its worker is doing: the loop
\* runs on a thread of its own.
ReturnReady_Joined(worker) == worker # "running"
ReturnReady(worker) == TRUE

CallbackFrame == UNCHANGED <<requests, streams, sm, task, ais, ret>>

\* send_message up to the start of the worker: post, capture the chat id,
\* and _start_streaming.
SendMessagePost(ok, got) ==
    /\ CallbackFrame
    /\ call.fn = "send_message" /\ call.pc = "post"
    /\ IF ~ok
         THEN /\ call' = [call EXCEPT !.pc = "raised"]
              /\ outcome' = Raised("send_message", "RuntimeError")
              /\ chat_id' = chat_id
         ELSE LET cid == SendMessageUpdate(chat_id, got)
                  wanted == call.args.on_message \/ call.args.on_tool_call IN
              /\ chat_id' = cid
              /\ call' = [call EXCEPT !.pc = "started", !.response = got,
                                      !.worker = IF wanted /\ Truthy(cid)
                                                   THEN "running" ELSE "none"]
              /\ outcome' = outcome

\* return assistant_msg
SendMessageReturn ==
    /\ CallbackFrame
    /\ call.fn = "send_message" /\ call.pc = "started"
    /\ ReturnReady(call.worker)
    /\ call' = [call EXCEPT !.pc = "returned"]
    /\ outcome' = Returned("send_message", call.response)
    /\ chat_id' = chat_id

\* The worker's stream yields a message: run_stream dispatches it.
WorkerMessage(m) ==
    /\ CallbackFrame
    /\ call.fn = "send_message" /\ call.worker = "running"
    /\ call.streamed < MaxStreamed
    /\ call' = [call EXCEPT !.streamed = @ + 1, !.last = <<m>>,
                            !.dispatched = Dispatch(m, call.args.on_message,
                                                    call.args.on_tool_call)]
    /\ UNCHANGED <<chat_id, outcome>>

\* The worker's stream ends or fails: run_stream is over.
WorkerEnd ==
    /\ CallbackFrame
    /\ call.fn = "send_message" /\ call.worker = "running"
    /\ call' = [call EXCEPT !.worker = "ended"]
    /\ UNCHANGED <<chat_id, outcome>>

CallbackInitState ==
    /\ chat_id = None /\ requests = <<>> /\ streams = <<>>
    /\ outcome = Returned("init", None)
    /\ sm = Idle /\ task = Idle /\ ais = Idle /\ ret = Idle
    /\ \E a \in [on_message : BOOLEAN, on_tool_call : BOOLEAN] :
         call = [pc |-> "post", fn |-> "send_message", args |-> a,
                 response |-> None, worker |-> "none",
                 streamed |-> 0, last |-> <<>>, dispatched |-> <<>>]

CallbackNext ==
    \/ \E ok \in BOOLEAN, got \in MaybeChatIds : SendMessagePost(ok, got)
    \/ SendMessageReturn
    \/ \E m \in StreamedMessages : WorkerMessage(m)
    \/ WorkerEnd

SpecCallbacks == CallbackInitState /\ [][CallbackNext]_vars

\* send_message runs on the caller's thread, which is scheduled whatever the
\* worker thread and the stream do.
SpecCallbacksFair == SpecCallbacks /\ WF_vars(SendMessageReturn)

\* The callbacks of a kind among those invoked for the last message.
Invoked(cb) == SelectSeq(call.dispatched, LAMBDA c : c.cb = cb)

\* The invocations of the last message that are client-executed and
\* awaiting input, as the tool-call records on_tool_call is to receive.
PendingClientCalls ==
    LET invs == call.last[1].tool_invocations
        pending == SelectSeq(invs, LAMBDA i : i.type = "client"
                                              /\ i.status = "awaiting_input")
    IN [k \in 1..Len(pending) |->
          [cb |-> "on_tool_call",
           arg |-> [id |-> pending[k].id,
                    name |-> IF pending[k].function.name = Absent THEN ""
                             ELSE pending[k].function.name,
                    args |-> IF pending[k].function.arguments = Absent THEN "{}"
                             ELSE pending[k].function.arguments]]]

(***************************************************************************)
(* C15: callback dispatch.  For each message the worker's stream yields,   *)
(* on_message (when supplied) is invoked once with the message, before any *)
(* on_tool_call for it; on_tool_call (when supplied) is invoked exactly    *)
(* for the invocations whose type is client and whose status is awaiting   *)
(* input, in order, with the invocation's id, function name and arguments; *)
(* a callback that was not supplied is never invoked.                      *)
(***************************************************************************)
C15_CallbackDispatch ==
    call.pc # "idle" /\ call.fn = "send_message" /\ call.last # <<>> =>
      /\ Invoked("on_message") =
           IF call.args.on_message
             THEN <<[cb |-> "on_message", arg |-> call.last[1]]>> ELSE <<>>
      /\ Invoked("on_tool_call") =
           IF call.args.on_tool_call THEN PendingClientCalls ELSE <<>>
      /\ call.dispatched = Invoked("on_message") \o Invoked("on_tool_call")

\* Both callbacks supplied; the message carried a client invocation awaiting
\* input and a completed one: on_message, then on_tool_call for the first.
C15_Witness ==
    /\ call.pc # "idle" /\ call.fn = "send_message"
    /\ call.args = [on_message |-> TRUE, on_tool_call |-> TRUE]
    /\ call.last # <<>>
    /\ Len(call.last[1].tool_invocations) = 2
    /\ call.last[1].tool_invocations[1].status = "awaiting_input"
    /\ call.last[1].tool_invocations[2].status = "completed"
    /\ call.last[1].tool_invocations[2].type = "client"
    /\ Len(call.dispatched) = 2
    /\ call.dispatched[2].arg = [id |-> "t1", name |-> "calc", args |-> "{x: 1}"]

ReturnedResponse ==
    call.pc = "returned" => outcome = Returned("send_message", call.response)

(***************************************************************************)
(* C16: send_message returns immediately.  Once the request has succeeded  *)
(* send_message returns, whether or not its worker ever receives a message *)
(* or ends; what it returns is the assistant message of the response, and  *)
(* nothing streamed afterwards changes it.                                 *)
(***************************************************************************)
C16_ReturnsImmediately ==
    /\ []ReturnedResponse
    /\ [][call.pc = "returned" => outcome' = outcome]_vars
    /\ (call.pc = "started") ~> (call.pc = "returned")

\* send_message has returned the response while its worker, still running,
\* has received no message yet.
C16_Witness ==
    /\ call.pc = "returned" /\ call.fn = "send_message"
    /\ call.worker = "running" /\ call.streamed = 0
    /\ outcome = Returned("send_message", "c1")

(***************************************************************************)
(* The blocking Agent and the non-blocking AsyncAgent side by side: the    *)
(* same operations against the same server responses (agent.py).           *)
(***************************************************************************)
MaxOps == 3                 \* operations applied to the pair of agents

WireRequest(method, endpoint, body) ==
    [method |-> method, endpoint |-> endpoint, body |-> body]
NoBody == [kind |-> "none"]

\* The keys of the "input" object of the message body.
InputKeys ==
    {"text", "image", "files", "role", "context", "system_prompt", "context_size"}
AsyncInputKeys ==
    {"text", "role", "context", "system_prompt", "context_size"}

MessageBody(cid, keys) == [kind |-> "message", chat_id |-> cid, input |-> keys]
ToolResultBody == [kind |-> "tool_result", keys |-> {"tool_invocation_id", "result"}]

\* The operations applied to both agents, with what the server answers.
\* A stream is iterated to its end; its connection either is lost after
\* the events or the consumer leaves at the first event.
AgentOps ==
    [name : {"send_message"}, ok : BOOLEAN, got : MaybeChatIds]
    \cup [name : {"get_chat"}, arg : MaybeChatIds]
    \cup [name : {"stream_messages"}, lost : BOOLEAN]
    \cup {[name |-> n] : n \in {"stop_chat", "submit_tool_result", "reset"}}

Issue(a, req) == [a EXCEPT !.requests = Append(@, req)]

RECURSIVE IssueTimes(_, _, _)
IssueTimes(a, req, n) ==
    IF n = 0 THEN a ELSE IssueTimes(Issue(a, req), req, n - 1)

\* One operation of the blocking Agent on a = [chat_id, requests].
AgentOp(a, op) ==
    CASE op.name = "send_message" ->
           LET posted == Issue(a, WireRequest("POST", <<"/agents/message">>,
                                              MessageBody(a.chat_id, InputKeys)))
           IN IF op.ok
                THEN [posted EXCEPT !.chat_id = SendMessageUpdate(a.chat_id, op.got)]
                ELSE posted
      [] op.name = "get_chat" ->
           LET cid == Or(op.arg, a.chat_id) IN
           IF ~Truthy(cid) THEN a
           ELSE Issue(a, WireRequest("GET", <<"/chats/", cid>>, NoBody))
      [] op.name = "stop_chat" ->
           IF Truthy(a.chat_id)
             THEN Issue(a, WireRequest("POST", <<"/chats/", a.chat_id, "/stop">>, NoBody))
             ELSE a
      [] op.name = "submit_tool_result" ->
           IF ~Truthy(a.chat_id) THEN a
           ELSE Issue(a, WireRequest("POST", <<"/chats/", a.chat_id, "/tool-result">>,
                                     ToolResultBody))
      [] op.name = "stream_messages" ->
           \* defaults: auto_reconnect, max_reconnects = 5; every lost
           \* connection is reopened through create_event_source
           IF ~Truthy(a.chat_id) THEN a
           ELSE IssueTimes(a, WireRequest("GET", <<"/chats/", a.chat_id,
                                                  "/messages/stream">>, NoBody),
                           IF op.lost THEN 1 + DefaultMaxReconnects ELSE 1)
      [] op.name = "reset" -> [a EXCEPT !.chat_id = None]

\* The same operation of AsyncAgent.
AsyncAgentOp(a, op) ==
    CASE op.name = "send_message" ->
           LET posted == Issue(a, WireRequest("POST", <<"/agents/message">>,
                                              MessageBody(a.chat_id, AsyncInputKeys)))
           IN IF op.ok
                THEN [posted EXCEPT !.chat_id = SendMessageUpdate(a.chat_id, op.got)]
                ELSE posted
      [] op.name = "get_chat" ->
           LET cid == Or(op.arg, a.chat_id) IN
           IF ~Truthy(cid) THEN a
           ELSE Issue(a, WireRequest("GET", <<"/chats/", cid>>, NoBody))
      [] op.name = "stop_chat" ->
           IF Truthy(a.chat_id)
             THEN Issue(a, WireRequest("POST", <<"/chats/", a.chat_id, "/stop">>, NoBody))
             ELSE a
      [] op.name = "submit_tool_result" ->
           IF ~Truthy(a.chat_id) THEN a
           ELSE Issue(a, WireRequest("POST", <<"/chats/", a.chat_id, "/tool-result">>,
                                     ToolResultBody))
      [] op.name = "stream_messages" ->
           \* one _stream_sse connection, never reopened
           IF ~Truthy(a.chat_id) THEN a
           ELSE Issue(a, WireRequest("GET", <<"/chats/", a.chat_id,
                                              "/messages/stream">>, NoBody))
      [] op.name = "reset" -> [a EXCEPT !.chat_id = None]

FreshAgent == [chat_id |-> None, requests |-> <<>>]

\* Apply one operation to both agents.
PairStep(op) ==
    /\ KernelFrame
    /\ call.pc = "pair" /\ ret.steps < MaxOps
    /\ ret' = [pc |-> "pair", steps |-> ret.steps + 1,
               sync |-> AgentOp(ret.sync, op),
               async |-> AsyncAgentOp(ret.async, op)]

PairInitState ==
    /\ chat_id = None /\ requests = <<>> /\ streams = <<>>
    /\ outcome = Returned("init", None)
    /\ sm = Idle /\ task = Idle /\ ais = Idle
    /\ call = [pc |-> "pair", fn |-> "Agent / AsyncAgent"]
    /\ ret = [pc |-> "pair", steps |-> 0, sync |-> FreshAgent, async |-> FreshAgent]

PairNext == \E op \in AgentOps : PairStep(op)

SpecPair == PairInitState /\ [][PairNext]_vars

(***************************************************************************)
(* C21: sync/async protocol equivalence.  After the same operations        *)
(* against the same server responses, Agent and AsyncAgent have issued the *)
(* same requests (method, endpoint and body) and hold the same chat id.    *)
(***************************************************************************)
C21_SyncAsyncEquivalence ==
    call.pc = "pair" =>
      /\ ret.sync.requests = ret.async.requests
      /\ ret.sync.chat_id = ret.async.chat_id


(***************************************************************************)
(* Further properties of the kernel executor, over SpecKernel.             *)
(***************************************************************************)
\* The module of the call loads: it imports and defines the three classes.
Loads(m) ==
    m.importable /\ {"App", "AppInput", "AppOutput"} \subseteq m.defines

(***************************************************************************)
(* C23: default run is NotImplemented.  An app that does not override      *)
(* BaseApp.run signals NotImplementedError when execute_app_run drives it  *)
(* with valid input.                                                       *)
(***************************************************************************)
C23_DefaultRunNotImplemented ==
    Ended("execute_app_run")
      /\ call.args.result = BaseApp_run /\ Acceptable(call.args.input_data) =>
        /\ ret.error.kind = "error"
        /\ ret.error.type = "NotImplementedError"

(***************************************************************************)
(* C24: setup-data coercion.  When the module declares a setup shape,      *)
(* absent setup data becomes the shape's defaults, a string the parsed and *)
(* validated payload, a map the shape constructed from it and an instance  *)
(* that same instance; a value of another type and a value failing         *)
(* validation fail with ValueError; and whenever the coercion fails the    *)
(* app's setup is not called.                                              *)
(***************************************************************************)
C24_SetupDataCoercion ==
    Ended("load_and_setup_app") /\ Loads(call.args.module)
      /\ "AppSetup" \in call.args.module.defines =>
        LET m == call.args.module
            data == call.args.setup_data
        IN
        IF data.kind = "none" \/ Acceptable(data)
          THEN /\ Len(ret.calls) = 1
               /\ Len(m.setup_params) >= 2 =>
                    ret.calls[1].args[1] = ExpectedSetupValue(m, data)
          ELSE /\ ret.calls = <<>>
               /\ ret.error.kind = "error"
               /\ ret.error.type = "ValueError"

(***************************************************************************)
(* C25: input validation gates run.  execute_app_run calls run at most     *)
(* once and only with the input model obtained from a valid map, a valid   *)
(* string or an instance; for input of another type it raises ValueError,  *)
(* yields nothing and does not call run; and an instance is handed to run  *)
(* as that same instance.                                                  *)
(***************************************************************************)
C25_InputValidationGatesRun ==
    Ended("execute_app_run") =>
      LET data == call.args.input_data IN
      /\ Len(ret.calls) <= 1
      /\ \A i \in 1..Len(ret.calls) :
           /\ Acceptable(data)
           /\ ret.calls[i] = CASE data.kind = "dict" -> "AppInput(**dict)"
                               [] data.kind = "str" -> "AppInput.model_validate(json)"
                               [] data.kind = "instance" -> "input_data"
      /\ data.kind \in {"none", "other"} =>
           /\ ret.calls = <<>> /\ ret.outputs = <<>>
           /\ ret.error.kind = "error" /\ ret.error.type = "ValueError"
      /\ data.kind = "instance" => ret.calls = <<"input_data">>

\* Input of another type was refused before run was called, although the
\* app's run would have produced output.
C25_Witness ==
    /\ Ended("execute_app_run")
    /\ call.args.input_data.kind = "other"
    /\ call.args.result.kind = "asyncgen" /\ Len(call.args.result.items) = 2
    /\ ret.calls = <<>> /\ ret.outputs = <<>>
    /\ ret.error = Err("ValueError", "Invalid input type")

(***************************************************************************)
(* C30: default setup completes.  An app that keeps BaseApp.setup, which   *)
(* declares no parameter and does nothing, is set up by load_and_setup_app *)
(* without error and its context ends with setup_complete true, whether or *)
(* not the module declares a setup shape.                                  *)
(***************************************************************************)
C30_DefaultSetupCompletes ==
    Ended("load_and_setup_app") /\ Loads(call.args.module)
      /\ call.args.module.setup_params = <<>>
      /\ ~call.args.module.setup_raises
      /\ ("AppSetup" \in call.args.module.defines =>
            call.args.setup_data.kind = "none" \/ Acceptable(call.args.setup_data)) =>
        /\ ret.error = NoError
        /\ ret.context.setup_complete


(***************************************************************************)
(* run_app (kernel/executor.py), the CLI convenience path: setup, input    *)
(* parsing and the run in one call, with the failure re-raised after the   *)
(* wrapping prefix has been taken out of its message.  The text of a       *)
(* message is a sequence of pieces, each the prefix or other text.         *)
(***************************************************************************)
MaxPieces == 3

Prefix == "Error running app: "
Messages == SeqsUpTo({Prefix, "boom"}, MaxPieces) \ {<<>>}

\* str.replace(old, ""): every occurrence of old is taken out.
replace(error_msg, old) == SelectSeq(error_msg, LAMBDA piece : piece # old)

\* The except clause of run_app: the error raised for a failure whose
\* str() is error_msg.
Reraise(error_msg) ==
    IF \E i \in 1..Len(error_msg) : error_msg[i] = Prefix
      THEN Err("Exception", replace(error_msg, Prefix))
      ELSE Err("Exception", error_msg)

\* The kinds of error that derive from Exception, the ones the clause
\* `except Exception` of run_app catches; asyncio.CancelledError,
\* SystemExit and KeyboardInterrupt derive from BaseException alone.
ExceptionTypes ==
    {"Exception", "ValueError", "TypeError", "NotImplementedError",
     "AttributeError"}

\* What leaves run_app for an error raised inside its try block.
RunAppExcept_Propagate(error) == error
RunAppExcept(error) ==
    IF error.type \in ExceptionTypes THEN Reraise(error.message) ELSE error

\* run_app(module, setup_data, input_data, metadata) drained by its
\* consumer: the outputs yielded and the error raised, if any.
run_app(m, setup_data, input_data, result) ==
    LET failed(message) == [outputs |-> <<>>, error |-> Reraise(<<message>>)] IN
    IF "App" \notin m.defines THEN failed("module has no attribute 'App'")
    ELSE IF "AppInput" \notin m.defines
      THEN failed("module has no attribute 'AppInput'")
    ELSE IF "AppOutput" \notin m.defines
      THEN failed("module has no attribute 'AppOutput'")
    ELSE
      LET context == [AppContext EXCEPT
                        !.app = "App()", !.AppInput = "AppInput",
                        !.AppOutput = "AppOutput",
                        !.AppSetup = IF "AppSetup" \in m.defines
                                       THEN "AppSetup" ELSE None]
          s == setup_app_instance(m, context, setup_data)
      IN
      IF s.error # NoError THEN failed(s.error.message)
      ELSE
        LET input_model == IF input_data.kind = "none" THEN Ok("AppInput()")
                           ELSE validate_and_parse_input(input_data)
        IN
        IF input_model.kind = "error" THEN failed(input_model.message)
        ELSE
          LET r == execute_app_run([kind |-> "instance"], result) IN
          [outputs |-> r.outputs,
           error |-> IF r.error = NoError THEN NoError
                     ELSE RunAppExcept(r.error)]

\* The runs run_app is tried with: one that succeeds, the one of BaseApp,
\* runs failing with each message, at once or after one output, and runs
\* failing with other kinds of error after no output or two.
RunAppResults ==
    { [kind |-> "awaitable", items |-> <<"x">>, fails |-> FALSE,
       params |-> RunParams, error |-> RunFailed],
      BaseApp_run }
    \cup [kind : {"awaitable", "asyncgen"}, items : {<<"x">>}, fails : {TRUE},
          params : {RunParams},
          error : {Err("Exception", msg) : msg \in Messages}]
    \cup [kind : {"asyncgen"}, items : {<<>>, <<"x", "y">>}, fails : {TRUE},
          params : {RunParams},
          error : {Err("ValueError", <<"boom">>),
                   Err("ValueError", <<Prefix, "boom">>),
                   Err("CancelledError", <<"boom">>)}]
    \cup [kind : {"awaitable"}, items : {<<"x">>}, fails : {TRUE},
          params : {RunParams}, error : {Err("CancelledError", <<"boom">>)}]

RunAppCalls ==
    [fn : {"run_app"},
     module : {m \in AppModules : m.importable},
     setup_data : DataValues,
     input_data : {d \in DataValues : d.kind \in {"none", "str"}},
     result : RunAppResults]

RunApp ==
    /\ KernelFrame
    /\ call.pc = "call" /\ call.fn = "run_app" /\ ret = Pending
    /\ ret' = run_app(call.args.module, call.args.setup_data,
                      call.args.input_data, call.args.result)

RunAppInitState ==
    /\ chat_id = None /\ requests = <<>> /\ streams = <<>>
    /\ outcome = Returned("init", None)
    /\ sm = Idle /\ task = Idle /\ ais = Idle
    /\ \E c \in RunAppCalls : call = [pc |-> "call", fn |-> c.fn, args |-> c]
    /\ ret = Pending

RunAppNext == RunApp

SpecRunApp == RunAppInitState /\ [][RunAppNext]_vars

\* The call reaches the run: the module has its classes, setup takes the
\* data and the call, and the input parses.
ReachesRun(args) ==
    /\ {"App", "AppInput", "AppOutput"} \subseteq args.module.defines
    /\ "AppSetup" \in args.module.defines =>
         args.setup_data.kind = "none" \/ Acceptable(args.setup_data)
    /\ SetupTakesCall(args.module)
    /\ args.input_data.kind = "none" \/ Acceptable(args.input_data)

\* A message less one leading layer of the prefix.
StripOneLayer(msg) == IF msg[1] = Prefix THEN Tail(msg) ELSE msg

(***************************************************************************)
(* C22: run_app error flattening.  When the run fails inside run_app the   *)
(* failure is re-raised with the original message less exactly one layer   *)
(* of the prefix "Error running app: ": a message of k >= 1 nested layers  *)
(* comes out with k-1 layers and a message without the prefix comes out    *)
(* unchanged.                                                              *)
(***************************************************************************)
C22_ErrorFlattening ==
    Ended("run_app") /\ ReachesRun(call.args)
      /\ call.args.result.fails /\ call.args.result.params = RunParams =>
        /\ ret.error.kind = "error"
        /\ ret.error.message = StripOneLayer(call.args.result.error.message)


(***************************************************************************)
(* setup_app (kernel/loader.py), the staging of the source directory into  *)
(* the build directory, one entry of the listing at a time.                *)
(***************************************************************************)
\* The names a source directory may hold, and what each may be there.
EntryNames == {".git", "inference.py", "sub", "infsh", "assets"}
EntryKinds(item) ==
    CASE item = "inference.py" -> {"absent", "file"}
      [] item = "infsh" -> {"absent", "dir"}
      [] OTHER -> {"absent", "file", "dir"}

\* item.startswith(".") and item.endswith(".py").
startswith_dot(item) == item = ".git"
endswith_py(item) == item = "inference.py"

\* A call of setup_app: the entries of source_dir, whether source_dir is the
\* working directory and, if it is not, the names that are directories in
\* the working directory, and the subdirectories the build directory holds
\* from an earlier staging.
StagingCalls ==
    { a \in [source : [EntryNames -> {"absent", "file", "dir"}],
             cwd_is_source : BOOLEAN,
             cwd_dirs : SUBSET {"sub", "infsh", "assets"},
             stale : SUBSET {"sub", "assets"}] :
        /\ \A item \in EntryNames : a.source[item] \in EntryKinds(item)
        /\ a.cwd_is_source =>
             a.cwd_dirs = {item \in {"sub", "infsh", "assets"} : a.source[item] = "dir"} }

\* os.path.isdir(item): the name is resolved against the working directory.
isdir(a, item) == item \in a.cwd_dirs

\* The body of the loop over os.listdir(source_dir) for one item: the build
\* directory after it and the error raised, if any.
StageItem(a, build, item) ==
    IF startswith_dot(item) THEN [build |-> build, error |-> NoError]
    ELSE IF endswith_py(item)
      THEN [build |-> [build EXCEPT ![item] = "copied"], error |-> NoError]
    ELSE IF isdir(a, item) /\ item # "infsh"
      THEN IF a.source[item] = "dir"
             THEN [build |-> [build EXCEPT ![item] = "copied"], error |-> NoError]
             ELSE [build |-> [build EXCEPT ![item] = "absent"],
                   error |-> Err("NotADirectoryError", "copytree")]
    ELSE [build |-> build, error |-> NoError]

StagingFrame == UNCHANGED <<chat_id, requests, streams, outcome, sm, task, ais, call>>

\* One iteration of the loop, on an entry not yet visited.
SetupAppCopy(item) ==
    /\ StagingFrame
    /\ call.pc = "call" /\ call.fn = "setup_app staging"
    /\ ret.pc = "copying" /\ item \in ret.todo
    /\ LET r == StageItem(call.args, ret.build, item) IN
       ret' = IF r.error # NoError
                THEN [pc |-> "raised", todo |-> ret.todo \ {item},
                      build |-> r.build, error |-> r.error]
                ELSE [ret EXCEPT !.todo = ret.todo \ {item}, !.build = r.build]

\* The listing is exhausted: the staging is over and the import follows.
SetupAppStaged ==
    /\ StagingFrame
    /\ call.pc = "call" /\ call.fn = "setup_app staging"
    /\ ret.pc = "copying" /\ ret.todo = {}
    /\ ret' = [ret EXCEPT !.pc = "staged"]

StagingInitState ==
    /\ chat_id = None /\ requests = <<>> /\ streams = <<>>
    /\ outcome = Returned("init", None)
    /\ sm = Idle /\ task = Idle /\ ais = Idle
    /\ \E a \in StagingCalls :
         /\ call = [pc |-> "call", fn |-> "setup_app staging", args |-> a]
         /\ ret = [pc |-> "copying",
                    todo |-> {item \in EntryNames : a.source[item] # "absent"},
                    build |-> [item \in EntryNames |->
                                 IF item \in a.stale THEN "stale" ELSE "absent"],
                    error |-> NoError]

StagingNext ==
    \/ \E item \in EntryNames : SetupAppCopy(item)
    \/ SetupAppStaged

SpecStaging == StagingInitState /\ [][StagingNext]_vars

(***************************************************************************)
(* C26: staging copy.  For any source_dir, the working directory or not,   *)
(* when the staging of setup_app is over the build directory holds a fresh *)
(* copy of every top-level .py file and of every top-level subdirectory    *)
(* of source_dir that is not hidden and is not infsh (a subdirectory the   *)
(* build directory already held having been replaced), and no hidden entry *)
(* and no infsh directory has been copied.                                 *)
(***************************************************************************)
C26_StagingCopy ==
    call.pc = "call" /\ call.fn = "setup_app staging" /\ ret.pc = "staged" =>
      \A item \in EntryNames :
        LET kind == call.args.source[item] IN
        /\ startswith_dot(item) \/ item = "infsh" => ret.build[item] # "copied"
        /\ ~startswith_dot(item) /\ kind = "file" /\ endswith_py(item) =>
             ret.build[item] = "copied"
        /\ ~startswith_dot(item) /\ kind = "dir" /\ item # "infsh" =>
             ret.build[item] = "copied"


(***************************************************************************)
(* File._download_url (models/file.py): the download of a remote uri into  *)
(* a temporary file, block by block, and the cleanup when it fails.        *)
(***************************************************************************)
MaxBlocks == 3              \* most blocks a response delivers

\* The content-length header of the response: absent, a number of bytes,
\* or text that is no number.
ContentLengths == {"absent", "malformed", "0", "1024", "2048", "4096"}

\* The error raised inside the outer try block when a step fails: the
\* inner handlers turn the URLError of urlopen and the IOError of the write
\* into RuntimeError, other errors pass as they are.
InnerError(failure) ==
    IF failure \in {"urlopen", "write"}
      THEN Err("RuntimeError", failure)
      ELSE Err("Exception", failure)

\* os.unlink(self._tmp_path) inside the handler, its own failure swallowed:
\* the temporary file after it.
Unlink_Skipped(file, unlink_ok) == file
Unlink(file, unlink_ok) == IF unlink_ok THEN "none" ELSE file

DownloadFrame == UNCHANGED <<chat_id, requests, streams, outcome, sm, task, ais, call>>

Downloading(pc) ==
    call.pc = "call" /\ call.fn = "File._download_url" /\ ret.pc = pc

\* tempfile.NamedTemporaryFile(delete=False, suffix=suffix).
DownloadCreateTemp(ok) ==
    /\ DownloadFrame /\ Downloading("start")
    /\ ret' = IF ok THEN [ret EXCEPT !.pc = "open", !.tmp_file = "tmp_file",
                                     !.file = "empty"]
              ELSE [ret EXCEPT !.pc = "failed", !.failure = "tempfile"]

\* urllib.request.urlopen(req) and int(response.headers.get(...)).
DownloadOpen(ok) ==
    /\ DownloadFrame /\ Downloading("open")
    /\ ret' = IF ~ok THEN [ret EXCEPT !.pc = "failed", !.failure = "urlopen"]
              ELSE IF call.args.content_length = "malformed"
                THEN [ret EXCEPT !.pc = "failed", !.failure = "header"]
              ELSE [ret EXCEPT !.pc = "reading"]

\* One turn of the read loop: a block is read and written, the data ends,
\* or the read or the write fails.
DownloadBlock(event) ==
    /\ DownloadFrame /\ Downloading("reading")
    /\ CASE event = "block" ->
              /\ ret.blocks < MaxBlocks
              /\ ret' = [ret EXCEPT !.blocks = ret.blocks + 1, !.file = "partial"]
         [] event = "end" ->
              ret' = [ret EXCEPT !.pc = "returned", !.path = "_tmp_path",
                                 !.file = IF ret.blocks = 0 THEN "empty"
                                          ELSE "complete"]
         [] event \in {"read", "write"} ->
              ret' = [ret EXCEPT !.pc = "failed", !.failure = event]

\* The outer handler: the temporary file is removed if it was created, and
\* RuntimeError is raised for the failure.
DownloadExcept(unlink_ok) ==
    /\ DownloadFrame /\ Downloading("failed")
    /\ ret' = IF ret.tmp_file # None
                THEN [ret EXCEPT !.pc = "raised",
                        !.file = Unlink(ret.file, unlink_ok),
                        !.unlink = IF unlink_ok THEN "done" ELSE "failed",
                        !.error = Err("RuntimeError", InnerError(ret.failure).message)]
                ELSE [ret EXCEPT !.pc = "raised",
                        !.error = Err("RuntimeError", InnerError(ret.failure).message)]

DownloadInitState ==
    /\ chat_id = None /\ requests = <<>> /\ streams = <<>>
    /\ outcome = Returned("init", None)
    /\ sm = Idle /\ task = Idle /\ ais = Idle
    /\ \E cl \in ContentLengths :
         call = [pc |-> "call", fn |-> "File._download_url",
                 args |-> [content_length |-> cl]]
    /\ ret = [pc |-> "start", tmp_file |-> None, file |-> "none", blocks |-> 0,
              path |-> None, failure |-> "none", unlink |-> "not tried",
              error |-> NoError]

DownloadNext ==
    \/ \E ok \in BOOLEAN : DownloadCreateTemp(ok)
    \/ \E ok \in BOOLEAN : DownloadOpen(ok)
    \/ \E event \in {"block", "end", "read", "write"} : DownloadBlock(event)
    \/ \E unlink_ok \in BOOLEAN : DownloadExcept(unlink_ok)

SpecDownload == DownloadInitState /\ [][DownloadNext]_vars

(***************************************************************************)
(* C28: download failure cleanup.  When the download of a File's remote    *)
(* URL fails, be it the transport or the local write, the error that       *)
(* surfaces is the RuntimeError of that failure; by then the removal of    *)
(* the temporary file has been attempted if the file was created, so the   *)
(* file is still there only if the removal itself failed; and a failed     *)
(* removal does not replace the error of the download.                     *)
(***************************************************************************)
C28_DownloadFailureCleanup ==
    Downloading("raised") =>
      /\ ret.failure # "none"
      /\ ret.error = Err("RuntimeError", ret.failure)
      /\ ret.path = None
      /\ ret.file # "none" => ret.unlink = "failed"
      /\ ret.tmp_file # None => ret.unlink # "not tried"

\* A write failed after two blocks; the half-written file was removed and
\* the download error surfaced.
C28_Witness ==
    /\ Downloading("raised")
    /\ ret.failure = "write" /\ ret.blocks = 2
    /\ ret.file = "none" /\ ret.unlink = "done"


(***************************************************************************)
(* The import search path (sys.path) under repeated calls of               *)
(* load_app_module (kernel/loader.py) and load_and_setup_app               *)
(* (kernel/executor.py).                                                   *)
(***************************************************************************)
MaxCalls == 3               \* most calls made in one process

AppPaths == {"", "/app", "/srv/app"}

\* sys.path when the first call is made.
InitialPaths ==
    { <<"/usr/lib">>, <<"/app", "/usr/lib">>, <<"/usr/lib", "/srv/app">> }

\* `if app_path and app_path not in sys.path: sys.path.insert(0, app_path)`.
InjectPath_Always(sys_path, app_path) ==
    IF app_path # "" THEN <<app_path>> \o sys_path ELSE sys_path
InjectPath(sys_path, app_path) ==
    IF app_path # "" /\ app_path \notin Range(sys_path)
      THEN <<app_path>> \o sys_path
      ELSE sys_path

PathFrame == UNCHANGED <<chat_id, requests, streams, outcome, sm, task, ais, call>>

\* load_app_module(app_path): the path is injected, then the import and the
\* validation succeed or raise.
LoadAppModuleCall(app_path, ok) ==
    /\ PathFrame
    /\ call.pc = "call" /\ call.fn = "sys.path" /\ Len(ret.calls) < MaxCalls
    /\ ret' = [pc |-> "called",
               sys_path |-> InjectPath(ret.sys_path, app_path),
               calls |-> Append(ret.calls, [fn |-> "load_app_module",
                                             app_path |-> app_path, ok |-> ok])]

\* load_and_setup_app(context, app_path, src_path): the path is injected,
\* then the import and the setup succeed or raise.
LoadAndSetupAppCall(app_path, ok) ==
    /\ PathFrame
    /\ call.pc = "call" /\ call.fn = "sys.path" /\ Len(ret.calls) < MaxCalls
    /\ ret' = [pc |-> "called",
               sys_path |-> InjectPath(ret.sys_path, app_path),
               calls |-> Append(ret.calls, [fn |-> "load_and_setup_app",
                                             app_path |-> app_path, ok |-> ok])]

PathInitState ==
    /\ chat_id = None /\ requests = <<>> /\ streams = <<>>
    /\ outcome = Returned("init", None)
    /\ sm = Idle /\ task = Idle /\ ais = Idle
    /\ \E sys_path \in InitialPaths :
         /\ call = [pc |-> "call", fn |-> "sys.path",
                    args |-> [sys_path |-> sys_path]]
         /\ ret = [pc |-> "called", sys_path |-> sys_path, calls |-> <<>>]

PathNext ==
    \/ \E app_path \in AppPaths, ok \in BOOLEAN : LoadAppModuleCall(app_path, ok)
    \/ \E app_path \in AppPaths, ok \in BOOLEAN : LoadAndSetupAppCall(app_path, ok)

SpecPath == PathInitState /\ [][PathNext]_vars

\* The number of occurrences of x in seq.
Occurrences(seq, x) == Cardinality({k \in 1..Len(seq) : seq[k] = x})

(***************************************************************************)
(* C27: idempotent path injection.  After any number of load_app_module    *)
(* or load_and_setup_app calls, a non-empty app_path that a call was given *)
(* occurs in sys.path exactly once, and calls with an empty app_path leave *)
(* sys.path as it was.                                                     *)
(***************************************************************************)
C27_IdempotentPathInjection ==
    call.pc = "call" /\ call.fn = "sys.path" =>
      /\ \A k \in 1..Len(ret.calls) :
           ret.calls[k].app_path # "" =>
             Occurrences(ret.sys_path, ret.calls[k].app_path) = 1
      /\ (\A k \in 1..Len(ret.calls) : ret.calls[k].app_path = "") =>
           ret.sys_path = call.args.sys_path

\* The same path was given three times, by both functions, one of the
\* calls failing after the injection; it is in sys.path once.
C27_Witness ==
    /\ call.pc = "call" /\ call.fn = "sys.path"
    /\ call.args.sys_path = <<"/usr/lib">>
    /\ Len(ret.calls) = 3
    /\ \A k \in 1..3 : ret.calls[k].app_path = "/app"
    /\ ret.calls[1].fn = "load_app_module" /\ ret.calls[2].fn = "load_and_setup_app"
    /\ ~ret.calls[2].ok
    /\ ret.sys_path = <<"/app", "/usr/lib">>


\* The consumer has left the sequence: it ended, an error was raised to the
\* consumer, or the consumer stopped iterating.
ConsumerLeft(s) == s.consumer \in {"ended", "raised", "closed", "abandoned"}

(***************************************************************************)
(* C29: local stream lifetime.  stop_chat() only issues the server-side    *)
(* cancellation request and leaves chat_id and the running streaming loop  *)
(* as they were; and the connection manager of a stream_messages /         *)
(* stream_chat sequence has been asked to stop exactly when the consumer   *)
(* has left the sequence, by its normal end, a raised error or early       *)
(* abandonment.                                                            *)
(***************************************************************************)
C29_LocalStreamLifetime ==
    [][ /\ requests' # requests =>
             /\ requests' = Append(requests, Request("stop_chat", chat_id, None))
             /\ chat_id' = chat_id /\ sm' = sm
        /\ sm'.stop_requested <=> ConsumerLeft(sm') ]_vars


(***************************************************************************)
(* load_and_setup_app (kernel/executor.py) step by step, on a context, an  *)
(* import path and a working directory that outlive the call.              *)
(***************************************************************************)
MaxLoads == 2               \* most calls made on one context

\* The statements of load_and_setup_app, in the order of the code.
LoadSteps_MarkBeforeSetup ==
    <<"inject", "import", "chdir", "App()", "AppInput", "AppOutput",
      "AppSetup", "complete", "setup">>
LoadSteps_ChdirFirst ==
    <<"inject", "chdir", "import", "App()", "AppInput", "AppOutput",
      "AppSetup", "setup", "complete">>
LoadSteps ==
    <<"inject", "import", "chdir", "App()", "AppInput", "AppOutput",
      "AppSetup", "setup", "complete">>

\* One statement on the process state s = [context, sys_path, cwd], for the
\* module m and the arguments a: the state after it and the error raised.
LoadStep(step, m, a, s) ==
    LET ok(t) == [state |-> t, error |-> NoError]
        raise(type) == [state |-> s, error |-> Err(type, step)]
        bind(name) == IF name \in m.defines
                        THEN ok([s EXCEPT !.context[name] = name])
                        ELSE raise("AttributeError")
    IN
    CASE step = "inject" ->
           ok([s EXCEPT !.sys_path = InjectPath(s.sys_path, a.app_path)])
      [] step = "import" ->
           IF m.importable THEN ok(s) ELSE raise("ImportError")
      [] step = "chdir" ->
           IF a.src_exists THEN ok([s EXCEPT !.cwd = "src_path"])
           ELSE raise("FileNotFoundError")
      [] step = "App()" ->
           IF "App" \in m.defines THEN ok([s EXCEPT !.context.app = "App()"])
           ELSE raise("AttributeError")
      [] step = "AppInput" -> bind("AppInput")
      [] step = "AppOutput" -> bind("AppOutput")
      [] step = "AppSetup" ->
           IF "AppSetup" \in m.defines THEN bind("AppSetup") ELSE ok(s)
      [] step = "setup" ->
           [state |-> s,
            error |-> setup_app_instance(m, s.context, a.setup_data).error]
      [] step = "complete" -> ok([s EXCEPT !.context.setup_complete = TRUE])

\* The statements run one after the other until one raises: the state left,
\* the statements that ran to their end, and the error.
RECURSIVE RunLoadSteps(_, _, _, _, _)
RunLoadSteps(steps, m, a, s, done) ==
    IF steps = <<>> THEN [state |-> s, done |-> done, error |-> NoError]
    ELSE LET r == LoadStep(Head(steps), m, a, s) IN
         IF r.error # NoError
           THEN [state |-> r.state, done |-> done, error |-> r.error]
           ELSE RunLoadSteps(Tail(steps), m, a, r.state, Append(done, Head(steps)))

\* The modules and arguments the calls are made with.
LoadModules ==
    {m \in AppModules :
       /\ m.setup_params \in {<<Param("metadata", TRUE)>>,
                              <<Param("setup_data", TRUE), Param("metadata", TRUE)>>}
       /\ \E missing \in {{}, {"AppSetup"}, {"AppOutput"}} :
            m.defines = {"App", "AppInput", "AppOutput", "AppSetup"} \ missing}
LoadArgs ==
    [app_path : {"", "/app"}, src_exists : BOOLEAN,
     setup_data : {[kind |-> "none"],
                   [kind |-> "dict", valid |-> FALSE, str_keys |-> TRUE]}]

\* One call of load_and_setup_app on the context.
LoadOnContext(m, a) ==
    /\ KernelFrame
    /\ call.pc = "call" /\ call.fn = "load_and_setup_app on a context"
    /\ ret.loads < MaxLoads
    /\ LET r == RunLoadSteps(LoadSteps, m, a, ret.state, <<>>) IN
       ret' = [pc |-> "called", state |-> r.state, before |-> ret.state,
               done |-> r.done, error |-> r.error,
               last |-> <<[module |-> m, args |-> a]>>,
               loads |-> ret.loads + 1,
               setups |-> IF "setup" \in Range(r.done) THEN ret.setups + 1
                          ELSE ret.setups]

LoadInitState ==
    /\ chat_id = None /\ requests = <<>> /\ streams = <<>>
    /\ outcome = Returned("init", None)
    /\ sm = Idle /\ task = Idle /\ ais = Idle
    /\ call = [pc |-> "call", fn |-> "load_and_setup_app on a context"]
    /\ LET s == [context |-> AppContext, sys_path |-> <<"/usr/lib">>,
                 cwd |-> "cwd"] IN
       ret = [pc |-> "called", state |-> s, before |-> s, done |-> <<>>,
              error |-> NoError,
              last |-> <<>>,   \* the module and arguments of the last call
              loads |-> 0,     \* calls made
              setups |-> 0]    \* calls in which setup returned without error

LoadNext == \E m \in LoadModules, a \in LoadArgs : LoadOnContext(m, a)

SpecLoad == LoadInitState /\ [][LoadNext]_vars

\* A call whose setup is invoked and returns without error, on a context
\* that no earlier call has bound a setup shape to.
SetupSucceeds(c) ==
    /\ Loads(c.module) /\ c.args.src_exists
    /\ "AppSetup" \in c.module.defines =>
         c.args.setup_data.kind = "none" \/ Acceptable(c.args.setup_data)
    /\ SetupTakesCall(c.module)

OnContext == call.pc = "call" /\ call.fn = "load_and_setup_app on a context"

(***************************************************************************)
(* C31: setup_complete tracks successful setup.  A context's               *)
(* setup_complete is true only if, in some call made on the context, the   *)
(* app's setup was invoked and returned without error; a call in which the *)
(* import, the binding of the shapes, the coercion of the setup data or    *)
(* setup itself fails leaves a false setup_complete false.                 *)
(***************************************************************************)
C31_SetupCompleteTracksSetup ==
    OnContext =>
      /\ ret.state.context.setup_complete => ret.setups > 0
      /\ ret.error # NoError /\ ~ret.before.context.setup_complete =>
           ~ret.state.context.setup_complete
      /\ ret.last # <<>> =>
           /\ ~SetupSucceeds(ret.last[1]) => ret.error # NoError
           /\ SetupSucceeds(ret.last[1]) /\ ret.loads = 1 =>
                ret.error = NoError /\ ret.state.context.setup_complete

\* The first call failed in setup and left the context incomplete; the
\* second succeeded and completed it.
C31_Witness ==
    /\ OnContext /\ ret.loads = 2 /\ ret.setups = 1
    /\ ~ret.before.context.setup_complete /\ ret.before.context.app = "App()"
    /\ ret.state.context.setup_complete /\ ret.error = NoError

C33_AislastSourceFailure ==
    ais.pc # "idle" =>
      /\ ais.pc = "loop" =>
           /\ ais.pos >= 1 /\ ais.e = ais.src[ais.pos]
           /\ Len(ais.out) = ais.pos - 1
      /\ ais.fails =>
           /\ ais.pc # "done"
           /\ Len(ais.out) < Len(ais.src) \/ ais.src = <<>>
           /\ \A i \in 1..Len(ais.out) : ais.out[i] = <<FALSE, ais.src[i]>>
           /\ ais.pc = "raised" =>
                /\ ais.pos = Len(ais.src)
                /\ Len(ais.out) = IF ais.src = <<>> THEN 0 ELSE Len(ais.src) - 1

\* The source failed after three items: two pairs were yielded, both with
\* is_last false, and the error left aislast.
C33_Witness ==
    /\ ais.pc = "raised" /\ ais.fails
    /\ ais.src = <<"x", "y", "x">>
    /\ ais.out = << <<FALSE, "x">>, <<FALSE, "y">> >>


(***************************************************************************)
(* run_app: the outputs delivered before a failure, and the error that     *)
(* surfaces.                                                               *)
(***************************************************************************)
\* The outputs a failing run produces before it fails: the items of an
\* async generator; an awaited coroutine that fails delivers none.
OutputsBeforeFailure(result) ==
    IF result.kind = "awaitable" THEN <<>> ELSE result.items

\* The run of the call is reached and fails.
RunFails ==
    /\ Ended("run_app") /\ ReachesRun(call.args)
    /\ call.args.result.fails /\ call.args.result.params = RunParams

\* msg is orig flattened: the text other than the prefix is kept, in
\* order, nothing is added, and a message without the prefix is unchanged.
Flattened(orig, msg) ==
    /\ replace(msg, Prefix) = replace(orig, Prefix)
    /\ Len(msg) <= Len(orig)
    /\ replace(orig, Prefix) = orig => msg = orig

\* The consumer received the m outputs of the failing run, in order, and
\* then the failure.
PartialOutput ==
    RunFails =>
      /\ ret.outputs = OutputsBeforeFailure(call.args.result)
      /\ ret.error.kind = "error"

(***************************************************************************)
(* C39: run_app partial output.  When the run produces m outputs and then  *)
(* fails, the consumer of run_app receives exactly those m outputs in      *)
(* order before the failure is raised to it; and every failure raised by   *)
(* run_app, whatever its phase and whatever its original error kind,       *)
(* surfaces as a single generic error carrying the flattened message.      *)
(***************************************************************************)
C39_RunAppPartialOutput ==
    /\ PartialOutput
    /\ Ended("run_app") /\ ret.error.kind = "error" =>
         ret.error.type = "Exception"
    /\ RunFails => Flattened(call.args.result.error.message, ret.error.message)

\* C39 as amended: the same, for the failures whose kind derives from
\* Exception; a failure of the run of any other kind (a cancellation, an
\* exit, an interrupt) leaves run_app as it is, after the same m outputs.
C39_RunAppPartialOutputAmended ==
    /\ PartialOutput
    /\ Ended("run_app") /\ ret.error.kind = "error" =>
         IF RunFails /\ call.args.result.error.type \notin ExceptionTypes
           THEN ret.error = call.args.result.error
           ELSE ret.error.type = "Exception"
    /\ RunFails => Flattened(call.args.result.error.message, ret.error.message)

\* A run that yields two outputs and then fails with a ValueError whose
\* message carries the prefix: both outputs, then the generic error.
C39_Witness ==
    /\ RunFails
    /\ call.args.result.error = Err("ValueError", <<Prefix, "boom">>)
    /\ ret.outputs = <<"x", "y">>
    /\ ret.error = Err("Exception", <<"boom">>)


(***************************************************************************)
(* C38: schema reordering is a permutation.  For every shape, those that   *)
(* inherit fields from a parent shape or declare none of their own         *)
(* included, the ordered schema has exactly the property names and the     *)
(* required names of the unordered schema; reordering never drops,         *)
(* duplicates or alters an entry.  (A property's schema travels with its   *)
(* name, base.py:23 and 28, so the names stand for the entries.)           *)
(***************************************************************************)
C38_SchemaPermutation ==
    Ended("model_json_schema") /\ ret.kind = "ok" =>
      /\ Range(ret.value.properties) = Range(call.args.cls.schema.properties)
      /\ Len(ret.value.properties) = Len(call.args.cls.schema.properties)
      /\ Range(ret.value.required) = Range(call.args.cls.schema.required)
      /\ Len(ret.value.required) = Len(call.args.cls.schema.required)


(***************************************************************************)
(* C36: a stream stays on its chat.  A stream_messages / stream_chat       *)
(* sequence started while the session was pinned to chat X opens its       *)
(* initial connection and every reconnection against chat X, even if       *)
(* reset() or a later send_message changes the agent's chat id while the   *)
(* sequence is being consumed.                                             *)
(***************************************************************************)
C36_StreamStaysOnChat ==
    \A i \in 1..Len(streams) :
      streams[i].pc = "open" => streams[i].target = streams[i].pinned


(***************************************************************************)
(* A session of send_message calls with attachments and callbacks          *)
(* (agent.py): the uploads, the post, the capture of the chat id,          *)
(* _start_streaming, and the loops the calls have started, each consuming  *)
(* the chat's message stream on a thread of its own.                       *)
(***************************************************************************)
MaxSends == 2               \* send_message calls made on the session

\* The messages the chat streams: the client invocation t1 awaiting input,
\* or completed.
AwaitingMessage ==
    [tool_invocations |->
       <<[id |-> "t1", type |-> "client", status |-> "awaiting_input",
          function |-> [name |-> "calc", arguments |-> "{x: 1}"]]>>]
CompletedMessage ==
    [tool_invocations |->
       <<[id |-> "t1", type |-> "client", status |-> "completed",
          function |-> [name |-> "calc", arguments |-> "{x: 1}"]]>>]
ChatMessages == {AwaitingMessage, CompletedMessage}

\* What a call is given: no attachment or two, and either callback or not.
SendArgs == [files : {0, 2}, on_message : BOOLEAN, on_tool_call : BOOLEAN]
NoArgs == [files |-> 0, on_message |-> FALSE, on_tool_call |-> FALSE]

\* A loop run_stream: its callbacks, the place in the chat's stream where
\* its connection began (it receives what is streamed from then on) and
\* the place it has consumed up to, and the number of on_message and
\* on_tool_call invocations it has made.
Loop(on_message, on_tool_call, at) ==
    [pc |-> "running", on_message |-> on_message,
     on_tool_call |-> on_tool_call, start |-> at, pos |-> at,
     messages |-> 0, tool_calls |-> 0]

\* _start_streaming(on_message, on_tool_call): the loops of the session
\* after it, given the chat id held and where the new connection begins.
_start_streaming_Unchecked(cid, loops, on_message, on_tool_call, at) ==
    Append(loops, Loop(on_message, on_tool_call, at))
_start_streaming_Replace(cid, loops, on_message, on_tool_call, at) ==
    IF ~Truthy(cid) THEN loops
    ELSE Append([k \in 1..Len(loops) |-> [loops[k] EXCEPT !.pc = "ended"]],
                Loop(on_message, on_tool_call, at))
_start_streaming(cid, loops, on_message, on_tool_call, at) ==
    IF ~Truthy(cid) THEN loops
    ELSE Append(loops, Loop(on_message, on_tool_call, at))

SessionFrame == UNCHANGED <<requests, sm, task, ais, ret>>

\* A call of send_message begins: the uploads come first.
SessionSend(a) ==
    /\ SessionFrame
    /\ call.pc = "ready" /\ call.sends < MaxSends
    /\ call' = [call EXCEPT !.pc = "sending", !.args = a, !.uploaded = 0,
                            !.posted = FALSE, !.sends = @ + 1]
    /\ UNCHANGED <<chat_id, streams, outcome>>

\* self.upload_file(f) for the next attachment: it returns or raises.
SessionUpload(ok) ==
    /\ SessionFrame
    /\ call.pc = "sending" /\ call.uploaded < call.args.files
    /\ IF ok
         THEN /\ call' = [call EXCEPT !.uploaded = @ + 1]
              /\ outcome' = outcome
         ELSE /\ call' = [call EXCEPT !.pc = "ready"]
              /\ outcome' = Raised("send_message", "RuntimeError")
    /\ UNCHANGED <<chat_id, streams>>

\* The post, once the uploads are done, and what follows it: the capture
\* of the chat id, _start_streaming if a callback was supplied, return.
SessionPost(ok, got) ==
    /\ SessionFrame
    /\ call.pc = "sending" /\ call.uploaded = call.args.files
    /\ call' = [call EXCEPT !.pc = "ready", !.posted = TRUE]
    /\ IF ~ok
         THEN /\ outcome' = Raised("send_message", "RuntimeError")
              /\ UNCHANGED <<chat_id, streams>>
         ELSE LET cid == SendMessageUpdate(chat_id, got) IN
              /\ chat_id' = cid
              /\ streams' = IF call.args.on_message \/ call.args.on_tool_call
                              THEN _start_streaming(cid, streams,
                                     call.args.on_message,
                                     call.args.on_tool_call,
                                     Len(call.chat))
                              ELSE streams
              /\ outcome' = Returned("send_message", got)

\* The chat streams one more message.
ChatPublish(m) ==
    /\ SessionFrame
    /\ Len(call.chat) < MaxStreamed
    /\ call' = [call EXCEPT !.chat = Append(@, m)]
    /\ UNCHANGED <<chat_id, streams, outcome>>

\* The stream of loop i yields the next message: run_stream dispatches it.
LoopMessage(i) ==
    LET loop == streams[i]
        message == call.chat[loop.pos + 1]
        dispatched == Dispatch(message, loop.on_message, loop.on_tool_call)
        count(cb) == Len(SelectSeq(dispatched, LAMBDA c : c.cb = cb))
    IN
    /\ SessionFrame
    /\ loop.pc = "running" /\ loop.pos < Len(call.chat)
    /\ streams' = [streams EXCEPT ![i] =
                     [@ EXCEPT !.pos = @ + 1,
                               !.messages = @ + count("on_message"),
                               !.tool_calls = @ + count("on_tool_call")]]
    /\ UNCHANGED <<chat_id, call, outcome>>

\* The stream of loop i ends or fails: its run_stream is over.
LoopEnd(i) ==
    /\ SessionFrame
    /\ streams[i].pc = "running"
    /\ streams' = [streams EXCEPT ![i] = [@ EXCEPT !.pc = "ended"]]
    /\ UNCHANGED <<chat_id, call, outcome>>

SessionInitState ==
    /\ chat_id = None /\ requests = <<>> /\ streams = <<>>
    /\ outcome = Returned("init", None)
    /\ sm = Idle /\ task = Idle /\ ais = Idle /\ ret = Idle
    /\ call = [pc |-> "ready", fn |-> "session",
               args |-> NoArgs, uploaded |-> 0, posted |-> FALSE,
               sends |-> 0, chat |-> <<>>]

\* The calls of a session, step by step; Agent.reset() between calls.
SessionReset ==
    /\ SessionFrame
    /\ call.pc = "ready"
    /\ chat_id' = None
    /\ outcome' = Returned("reset", None)
    /\ UNCHANGED <<call, streams>>

SessionNext ==
    \/ \E a \in SendArgs : SessionSend(a)
    \/ \E ok \in BOOLEAN : SessionUpload(ok)
    \/ \E ok \in BOOLEAN, got \in MaybeChatIds : SessionPost(ok, got)
    \/ \E i \in 1..Len(streams) : LoopEnd(i)
    \/ SessionReset

SpecSession == SessionInitState /\ [][SessionNext]_vars

\* A whole call of send_message without attachments: the post and what
\* follows it.
SendMessageCall(a, ok, got) ==
    /\ SessionFrame
    /\ call.pc = "ready" /\ call.sends < MaxSends
    /\ call' = [call EXCEPT !.args = a, !.posted = TRUE, !.sends = @ + 1]
    /\ IF ~ok
         THEN /\ outcome' = Raised("send_message", "RuntimeError")
              /\ UNCHANGED <<chat_id, streams>>
         ELSE LET cid == SendMessageUpdate(chat_id, got) IN
              /\ chat_id' = cid
              /\ streams' = IF a.on_message \/ a.on_tool_call
                              THEN _start_streaming(cid, streams, a.on_message,
                                     a.on_tool_call, Len(call.chat))
                              ELSE streams
              /\ outcome' = Returned("send_message", got)

\* The calls of a session whose loops consume the chat's stream.
LoopsNext ==
    \/ \E a \in {b \in SendArgs : b.files = 0}, ok \in BOOLEAN,
          got \in {"c1", None} : SendMessageCall(a, ok, got)
    \/ \E m \in ChatMessages : ChatPublish(m)
    \/ \E i \in 1..Len(streams) : LoopMessage(i)
    \/ \E i \in 1..Len(streams) : LoopEnd(i)

SpecLoops == SessionInitState /\ [][LoopsNext]_vars


\* A step of a send_message call, and how the call ended with it.
InSend == call.pc = "sending"
EndsSend == call.pc = "sending" /\ call'.pc = "ready"

SendFailureAtomicStep ==
    /\ (InSend /\ call'.posted =>
          call.uploaded = call.args.files)
    /\ (EndsSend /\ call.uploaded < call.args.files =>
          outcome'.kind = "raise" /\ ~call'.posted)
    /\ (EndsSend /\ outcome'.kind = "raise" =>
          chat_id' = chat_id /\ streams' = streams)
    /\ (EndsSend /\ outcome'.kind = "return"
           /\ ~Truthy(chat_id) /\ ~Truthy(outcome'.value) =>
          chat_id' = chat_id /\ streams' = streams)

(***************************************************************************)
(* C34: send_message failure atomicity.  send_message posts the message    *)
(* only after every attachment has been uploaded; if an upload or the post *)
(* fails, the call raises, the chat id is unchanged and no streaming loop  *)
(* is started.  A successful post whose response carries no chat id on a   *)
(* fresh session starts no loop either, even when callbacks are supplied.  *)
(***************************************************************************)
C34_SendFailureAtomicity == [][SendFailureAtomicStep]_vars

\* A call with two attachments and both callbacks on a fresh session: both
\* uploaded, the post answered without a chat id, and no loop was started.
C34_Witness ==
    /\ call.fn = "session" /\ call.pc = "ready" /\ call.posted
    /\ call.args = [files |-> 2, on_message |-> TRUE, on_tool_call |-> TRUE]
    /\ call.uploaded = 2
    /\ outcome = Returned("send_message", "")
    /\ chat_id = None /\ streams = <<>>

\* A send_message call is made by the step, and it starts a loop.
IsSend == call.pc = "ready" /\ call'.sends = call.sends + 1
StartsLoop ==
    /\ outcome'.kind = "return" /\ Truthy(chat_id')
    /\ call'.args.on_message \/ call'.args.on_tool_call

\* The messages loop has dispatched, and those of them in which the
\* invocation is awaiting input.
Consumed(loop) == SubSeq(call.chat, loop.start + 1, loop.pos)
Awaiting(loop) == SelectSeq(Consumed(loop), LAMBDA m : m = AwaitingMessage)

\* The number of loops message j of the chat has reached.
Reached(j) ==
    Cardinality({i \in 1..Len(streams) :
                   streams[i].start < j /\ j <= streams[i].pos})

OneLoopPerSendStep ==
    /\ Len(streams') >= Len(streams)
    /\ IsSend =>
         /\ \A i \in 1..Len(streams) : streams'[i] = streams[i]
         /\ Len(streams') = Len(streams) + (IF StartsLoop THEN 1 ELSE 0)

LoopsDispatch ==
    call.fn = "session" =>
      /\ Len(streams) <= call.sends
      /\ \A j \in 1..Len(call.chat) : Reached(j) <= call.sends
      /\ \A i \in 1..Len(streams) :
           /\ streams[i].messages =
                IF streams[i].on_message THEN Len(Consumed(streams[i])) ELSE 0
           /\ streams[i].tool_calls =
                IF streams[i].on_tool_call THEN Len(Awaiting(streams[i])) ELSE 0

\* A call that supplies a callback and returns starts a loop, whatever
\* chat id is held.
EverySendStartsLoopStep ==
    /\ Len(streams') >= Len(streams)
    /\ IsSend =>
         /\ \A i \in 1..Len(streams) : streams'[i] = streams[i]
         /\ outcome'.kind = "return"
              /\ (call'.args.on_message \/ call'.args.on_tool_call) =>
                Len(streams') = Len(streams) + 1

(***************************************************************************)
(* C35: one streaming loop per send_message.  Every send_message call that *)
(* supplies a callback starts a new loop and stops no loop started         *)
(* earlier, so after k such calls up to k loops consume the chat's stream  *)
(* and one streamed message reaches the callbacks up to k times; within a  *)
(* loop, an invocation awaiting input in successive messages triggers      *)
(* on_tool_call once per such message.                                     *)
(***************************************************************************)
C35_EverySendStartsLoop == []LoopsDispatch /\ [][EverySendStartsLoopStep]_vars

\* C35 as amended: the call that starts a loop is the one that supplies a
\* callback and returns with a chat id held; the rest as stated.
C35_OneLoopPerSend == []LoopsDispatch /\ [][OneLoopPerSendStep]_vars

\* Two calls with on_tool_call, then two messages with t1 awaiting input:
\* each message reached both loops, and each loop called on_tool_call
\* twice for t1.
C35_Witness ==
    /\ call.fn = "session" /\ call.sends = 2 /\ Len(streams) = 2
    /\ call.chat = <<AwaitingMessage, AwaitingMessage>>
    /\ \A i \in 1..2 :
         /\ streams[i].pc = "running" /\ streams[i].on_tool_call
         /\ streams[i].tool_calls = 2
    /\ Reached(1) = 2 /\ Reached(2) = 2


(***************************************************************************)
(* send_message called from several threads on one fresh Agent             *)
(* (agent.py): each call builds its body from self._chat_id, posts it,     *)
(* and then tests and sets self._chat_id.  The service begins a fresh chat *)
(* for a message posted without a chat id and answers with the id of the   *)
(* chat the message went to.                                               *)
(***************************************************************************)
MaxCallers == 2             \* threads calling send_message

Callers == 1..MaxCallers

\* The ids the service gives the chats it creates, in order.
ServiceChatIds == <<"c1", "c2", "c3", "c4">>

RaceFrame == UNCHANGED <<requests, streams, sm, task, ais, ret>>

Caller(t) == call.callers[t]
Goto(t, c) == [call EXCEPT !.callers[t] = c]

\* body = {"chat_id": self._chat_id, ...}
RaceBuildBody(t) ==
    /\ RaceFrame
    /\ Caller(t).pc = "start"
    /\ call' = Goto(t, [Caller(t) EXCEPT !.pc = "built", !.body = chat_id])
    /\ UNCHANGED <<chat_id, outcome>>

\* response = self._request("post", endpoint, data=body): the service
\* handles the message, or the request fails.
RacePost(t, ok) ==
    /\ RaceFrame
    /\ Caller(t).pc = "built"
    /\ IF ~ok
         THEN /\ call' = Goto(t, [Caller(t) EXCEPT !.pc = "raised"])
              /\ outcome' = Raised("send_message", "RuntimeError")
         ELSE IF Truthy(Caller(t).body)
           THEN /\ call' = Goto(t, [Caller(t) EXCEPT
                                      !.pc = "responded", !.got = Caller(t).body])
                /\ outcome' = outcome
         ELSE /\ call' = [Goto(t, [Caller(t) EXCEPT
                                     !.pc = "responded",
                                     !.got = ServiceChatIds[call.chats + 1]])
                            EXCEPT !.chats = @ + 1]
              /\ outcome' = outcome
    /\ UNCHANGED chat_id

\* if not self._chat_id and assistant_msg.get("chat_id"):
RaceTest(t) ==
    /\ RaceFrame
    /\ Caller(t).pc = "responded"
    /\ call' = Goto(t, [Caller(t) EXCEPT
                          !.pc = IF SendMessageUpdate(chat_id, Caller(t).got)
                                      # chat_id
                                   THEN "setting" ELSE "returning"])
    /\ UNCHANGED <<chat_id, outcome>>

\* self._chat_id = assistant_msg["chat_id"]
RaceSet(t) ==
    /\ RaceFrame
    /\ Caller(t).pc = "setting"
    /\ chat_id' = Caller(t).got
    /\ call' = Goto(t, [Caller(t) EXCEPT !.pc = "returning"])
    /\ UNCHANGED outcome

\* return assistant_msg
RaceReturn(t) ==
    /\ RaceFrame
    /\ Caller(t).pc = "returning"
    /\ call' = Goto(t, [Caller(t) EXCEPT !.pc = "returned"])
    /\ outcome' = Returned("send_message", Caller(t).got)
    /\ UNCHANGED chat_id

RaceInitState ==
    /\ chat_id = None /\ requests = <<>> /\ streams = <<>>
    /\ outcome = Returned("init", None)
    /\ sm = Idle /\ task = Idle /\ ais = Idle /\ ret = Idle
    /\ call = [pc |-> "race", fn |-> "send_message", chats |-> 0,
               callers |-> [t \in Callers |->
                              [pc |-> "start", body |-> None, got |-> None]]]

RaceNext ==
    \/ \E t \in Callers : RaceBuildBody(t)
    \/ \E t \in Callers, ok \in BOOLEAN : RacePost(t, ok)
    \/ \E t \in Callers : RaceTest(t)
    \/ \E t \in Callers : RaceSet(t)
    \/ \E t \in Callers : RaceReturn(t)

SpecRace == RaceInitState /\ [][RaceNext]_vars

(***************************************************************************)
(* C37: concurrent first messages.  If two send_message calls overlap on a *)
(* fresh Agent, then under every interleaving at most one remote chat is   *)
(* created for the session and, once both calls have returned, chat_id     *)
(* equals the chat id carried by both returned assistant messages.         *)
(***************************************************************************)
C37_ConcurrentFirstMessages ==
    call.pc = "race" =>
      /\ call.chats <= 1
      /\ (\A t \in Callers : Caller(t).pc \in {"returned", "raised"}) =>
           \A t \in Callers :
             Caller(t).pc = "returned" => Caller(t).got = chat_id

====
